---- MODULE Spec2Model ----
(***************************************************************************)
(* questLine: the Werewolf rules engine (packages/game-logic) and the      *)
(* Convex backend mutations that keep the server-side game document.       *)
(*                                                                         *)
(* Two implementations of the same game live in the repository.  The      *)
(* variable `layer` says which of them a behaviour runs:                   *)
(*   "engine"  - the pure functions of packages/game-logic/src/werewolf,   *)
(*               driven through their entry points (assignRoles,           *)
(*               submitNightAction, submitVote, advanceGameToNextPhase);   *)
(*   "backend" - the Convex mutations of convex/games.ts,                  *)
(*               convex/werewolf/*.ts and the players module.              *)
(* Timestamps (Date.now()), action tokens and display fields are left out: *)
(* no operation modelled here reads them.  The lobby (join, leave, start,  *)
(* the status field) and the append-only gameEvents log are left out too:  *)
(* backend games begin in `setup` with the roles already dealt.            *)
(*                                                                         *)
(* The variable `ai` is the AI pipeline of the backend (convex/ai.ts and   *)
(* the aiEngine actions): the aiTasks table, the invocations of the        *)
(* processTask action and the position of the onPhaseAdvance orchestrator. *)
(* Prompts, model names and token usage are left out; the provider's       *)
(* answer is drawn from the forms parseAIDecision tells apart.             *)
(***************************************************************************)
EXTENDS Integers, Sequences, FiniteSets, TLC

VARIABLES layer, state, lastOp, game, players, actions, votes, ai

vars == <<layer, state, lastOp, game, players, actions, votes, ai>>

(***************************************************************************)
(* Bounds and program constants                                            *)
(***************************************************************************)
\* the backend's round counter is not advanced past this number
MaxRound == 2

\* the most night-action records and vote records kept in one game
MaxNightActions == 3

MaxVotes == 3

\* minimum roster size of canTransitionPhase / validateRoleConfiguration
MinPlayers == 4

\* round of a freshly created game
InitialRound == 0

NULL == "null"

\* the ids of the seats, in join order
Ids == <<"p1", "p2", "p3", "p4">>

IdSet == {Ids[i] : i \in 1..Len(Ids)}

Roles == {"villager", "werewolf", "seer", "doctor", "hunter"}

Phases == {"setup", "night", "day", "voting", "resolution", "ended"}

\* the seats that clients name as the target of an action or a vote
Nominees == {Ids[1], Ids[2]}

(***************************************************************************)
(* Generic helpers on sequences                                            *)
(***************************************************************************)
Range(s) == {s[i] : i \in 1..Len(s)}

\* the value standing for `undefined` / `null` where a player record is expected
NoPlayer ==
  [id |-> NULL, role |-> NULL, isAlive |-> FALSE,
   hasActedThisRound |-> FALSE, hasVotedThisRound |-> FALSE]

\* Array.prototype.find on the players array: the record with this id, or NoPlayer
FindPlayer(ps, id) ==
  IF \E i \in 1..Len(ps) : ps[i].id = id
  THEN ps[CHOOSE i \in 1..Len(ps) : ps[i].id = id /\ \A j \in 1..(i-1) : ps[j].id # id]
  ELSE NoPlayer

(***************************************************************************)
(* Rules engine: win condition (win-conditions.ts)                         *)
(***************************************************************************)
\* checkWinCondition with the first comparison made strict
checkWinCondition_Strict(ps) ==
  LET aliveWerewolves == Cardinality({i \in 1..Len(ps) : ps[i].isAlive /\ ps[i].role = "werewolf"})
      aliveVillagers  == Cardinality({i \in 1..Len(ps) : ps[i].isAlive /\ ps[i].role # "werewolf"})
  IN  IF aliveWerewolves > aliveVillagers THEN "werewolves"
      ELSE IF aliveWerewolves = 0 THEN "villagers"
      ELSE "none"

checkWinCondition(ps) ==
  LET aliveWerewolves == Cardinality({i \in 1..Len(ps) : ps[i].isAlive /\ ps[i].role = "werewolf"})
      aliveVillagers  == Cardinality({i \in 1..Len(ps) : ps[i].isAlive /\ ps[i].role # "werewolf"})
  IN  IF aliveWerewolves >= aliveVillagers THEN "werewolves"
      ELSE IF aliveWerewolves = 0 THEN "villagers"
      ELSE "none"

(***************************************************************************)
(* Rules engine: night actions (actions.ts)                                *)
(***************************************************************************)
getNightActionType(role) ==
  CASE role = "werewolf" -> "kill"
    [] role = "seer"     -> "investigate"
    [] role = "doctor"   -> "protect"
    [] OTHER             -> "none"

canPerformNightAction(player, target, s) ==
  /\ player.isAlive
  /\ target.isAlive
  /\ s.phase = "night"
  /\ ~player.hasActedThisRound
  /\ getNightActionType(player.role) # "none"
  /\ ~(player.role = "werewolf" /\ target.role = "werewolf")

submitNightAction(s, playerId, targetId) ==
  LET player == FindPlayer(s.players, playerId)
      action == [playerId |-> playerId, targetId |-> targetId,
                 actionType |-> getNightActionType(player.role), round |-> s.round]
  IN  [s EXCEPT !.nightActions = Append(@, action),
                !.players = [i \in 1..Len(@) |->
                               IF @[i].id = playerId
                               THEN [@[i] EXCEPT !.hasActedThisRound = TRUE]
                               ELSE @[i]]]

\* the keys of the `votes` object in insertion order: the distinct non-null
\* targets in order of first appearance
RECURSIVE TargetKeys(_)
TargetKeys(as) ==
  IF as = <<>> THEN <<>>
  ELSE LET front == TargetKeys(SubSeq(as, 1, Len(as) - 1))
           t == as[Len(as)].targetId
       IN  IF t = NULL \/ t \in Range(front) THEN front ELSE Append(front, t)

CountFor(as, t) == Cardinality({i \in 1..Len(as) : as[i].targetId = t})

\* the loop `for (const [playerId, count] of Object.entries(votes))`
RECURSIVE MaxScan(_, _, _, _)
MaxScan(keys, as, maxVotes, target) ==
  IF keys = <<>> THEN target
  ELSE LET count == CountFor(as, Head(keys))
       IN  IF count > maxVotes
           THEN MaxScan(Tail(keys), as, count, Head(keys))
           ELSE MaxScan(Tail(keys), as, maxVotes, target)

\* getMajorityTarget that scans the targets from the one named last, so that
\* the last of several targets with the most actions is chosen
getMajorityTarget_LastSeen(as) ==
  LET keys == TargetKeys(as)
  IN  IF Len(as) = 0 THEN NULL
      ELSE MaxScan([i \in 1..Len(keys) |-> keys[Len(keys) + 1 - i]], as, 0, NULL)

getMajorityTarget(as) ==
  IF Len(as) = 0 THEN NULL ELSE MaxScan(TargetKeys(as), as, 0, NULL)

\* resolveNightActions without the doctor's protection
resolveNightActions_NoProtect(s) ==
  LET currentRoundActions == SelectSeq(s.nightActions, LAMBDA a : a.round = s.round)
      killVotes == SelectSeq(currentRoundActions, LAMBDA a : a.actionType = "kill")
      killTarget == getMajorityTarget(killVotes)
  IN  IF killTarget # NULL
      THEN [s EXCEPT !.players = [i \in 1..Len(@) |->
                                    IF @[i].id = killTarget
                                    THEN [@[i] EXCEPT !.isAlive = FALSE]
                                    ELSE @[i]],
                     !.killedTonight = killTarget,
                     !.savedTonight = NULL]
      ELSE [s EXCEPT !.killedTonight = NULL, !.savedTonight = NULL]

resolveNightActions(s) ==
  LET currentRoundActions == SelectSeq(s.nightActions, LAMBDA a : a.round = s.round)
      killVotes == SelectSeq(currentRoundActions, LAMBDA a : a.actionType = "kill")
      killTarget == getMajorityTarget(killVotes)
      protects == SelectSeq(currentRoundActions, LAMBDA a : a.actionType = "protect")
      protectedTarget == IF protects = <<>> THEN NULL ELSE Head(protects).targetId
      killSucceeds == killTarget # NULL /\ killTarget # protectedTarget
  IN  IF killTarget # NULL /\ killSucceeds
      THEN [s EXCEPT !.players = [i \in 1..Len(@) |->
                                    IF @[i].id = killTarget
                                    THEN [@[i] EXCEPT !.isAlive = FALSE]
                                    ELSE @[i]],
                     !.killedTonight = killTarget,
                     !.savedTonight = NULL]
      ELSE IF killTarget # NULL /\ protectedTarget = killTarget
      THEN [s EXCEPT !.killedTonight = NULL, !.savedTonight = killTarget]
      ELSE [s EXCEPT !.killedTonight = NULL, !.savedTonight = NULL]

(***************************************************************************)
(* Rules engine: voting (voting.ts)                                        *)
(***************************************************************************)
\* `target` is a player record, or NoPlayer for an abstention
canVote(voter, target, s) ==
  /\ voter.isAlive
  /\ s.phase = "voting"
  /\ ~voter.hasVotedThisRound
  /\ ~(target.id # NULL /\ ~target.isAlive)

submitVote(s, voterId, targetId) ==
  LET vote == [voterId |-> voterId, targetId |-> targetId, round |-> s.round]
  IN  [s EXCEPT !.votes = Append(@, vote),
                !.players = [i \in 1..Len(@) |->
                               IF @[i].id = voterId
                               THEN [@[i] EXCEPT !.hasVotedThisRound = TRUE]
                               ELSE @[i]]]

\* the loop over Object.entries(results) of tallyVotes: the running
\* (maxVotes, leader, isTie) triple
RECURSIVE TallyScan(_, _, _)
TallyScan(keys, vs, acc) ==
  IF keys = <<>> THEN acc
  ELSE LET count == CountFor(vs, Head(keys))
       IN  IF count > acc.maxVotes
           THEN TallyScan(Tail(keys), vs,
                          [maxVotes |-> count, leader |-> Head(keys), isTie |-> FALSE])
           ELSE IF count = acc.maxVotes
           THEN TallyScan(Tail(keys), vs, [acc EXCEPT !.isTie = TRUE])
           ELSE TallyScan(Tail(keys), vs, acc)

\* tallyVotes that never reports a tie
tallyVotes_NoTie(s) ==
  LET currentRoundVotes == SelectSeq(s.votes, LAMBDA v : v.round = s.round)
      keys == TargetKeys(currentRoundVotes)
      scan == TallyScan(keys, currentRoundVotes,
                        [maxVotes |-> 0, leader |-> NULL, isTie |-> FALSE])
  IN  [results |-> [k \in Range(keys) |-> CountFor(currentRoundVotes, k)],
       abstentions |-> CountFor(currentRoundVotes, NULL),
       leader |-> scan.leader,
       isTie |-> FALSE]

tallyVotes(s) ==
  LET currentRoundVotes == SelectSeq(s.votes, LAMBDA v : v.round = s.round)
      keys == TargetKeys(currentRoundVotes)
      scan == TallyScan(keys, currentRoundVotes,
                        [maxVotes |-> 0, leader |-> NULL, isTie |-> FALSE])
  IN  [results |-> [k \in Range(keys) |-> CountFor(currentRoundVotes, k)],
       abstentions |-> CountFor(currentRoundVotes, NULL),
       leader |-> scan.leader,
       isTie |-> scan.isTie]

\* resolveVoting that never eliminates anybody
resolveVoting_NoElimination(s, hunterRevengeTargetId) == [s EXCEPT !.eliminatedToday = NULL]

\* resolveVoting without the Hunter's revenge
resolveVoting_NoRevenge(s, hunterRevengeTargetId) ==
  LET t == tallyVotes(s)
      leader == t.leader
      eliminatedPlayer == FindPlayer(s.players, leader)
  IN  IF t.isTie \/ leader = NULL THEN [s EXCEPT !.eliminatedToday = NULL]
      ELSE IF eliminatedPlayer.id = NULL THEN [s EXCEPT !.eliminatedToday = NULL]
      ELSE [s EXCEPT !.players = [i \in 1..Len(@) |->
                                    IF @[i].id = leader
                                    THEN [@[i] EXCEPT !.isAlive = FALSE]
                                    ELSE @[i]],
                     !.eliminatedToday = leader]

\* hunterRevengeTargetId is a player id, or NULL when none is supplied
resolveVoting(s, hunterRevengeTargetId) ==
  LET t == tallyVotes(s)
      leader == t.leader
      eliminatedPlayer == FindPlayer(s.players, leader)
  IN  IF t.isTie \/ leader = NULL THEN [s EXCEPT !.eliminatedToday = NULL]
      ELSE IF eliminatedPlayer.id = NULL THEN [s EXCEPT !.eliminatedToday = NULL]
      ELSE
        LET afterVote == [i \in 1..Len(s.players) |->
                            IF s.players[i].id = leader
                            THEN [s.players[i] EXCEPT !.isAlive = FALSE]
                            ELSE s.players[i]]
            revenge == /\ eliminatedPlayer.role = "hunter"
                       /\ hunterRevengeTargetId # NULL
                       /\ hunterRevengeTargetId # leader
                       /\ \E i \in 1..Len(afterVote) :
                            afterVote[i].id = hunterRevengeTargetId /\ afterVote[i].isAlive
            updatedPlayers == IF revenge
                              THEN [i \in 1..Len(afterVote) |->
                                      IF afterVote[i].id = hunterRevengeTargetId
                                      THEN [afterVote[i] EXCEPT !.isAlive = FALSE]
                                      ELSE afterVote[i]]
                              ELSE afterVote
        IN  [s EXCEPT !.players = updatedPlayers, !.eliminatedToday = leader]

(***************************************************************************)
(* Rules engine: phase state machine (phases.ts)                           *)
(***************************************************************************)
getNextPhase(currentPhase) ==
  CASE currentPhase = "setup"      -> "night"
    [] currentPhase = "night"      -> "day"
    [] currentPhase = "day"        -> "voting"
    [] currentPhase = "voting"     -> "resolution"
    [] currentPhase = "resolution" -> "night"
    [] currentPhase = "ended"      -> "ended"
    [] OTHER                       -> "setup"

HasNightRole(p) == p.role = "werewolf" \/ p.role = "seer" \/ p.role = "doctor"

canTransitionPhase(s) ==
  CASE s.phase = "setup" ->
         /\ \A i \in 1..Len(s.players) : s.players[i].role # NULL
         /\ ~(Len(s.players) < MinPlayers)
    [] s.phase = "night" ->
         \A i \in 1..Len(s.players) :
            (s.players[i].isAlive /\ HasNightRole(s.players[i]))
              => s.players[i].hasActedThisRound
    [] s.phase = "day" -> TRUE
    [] s.phase = "voting" ->
         \A i \in 1..Len(s.players) :
            s.players[i].isAlive => s.players[i].hasVotedThisRound
    [] s.phase = "resolution" -> TRUE
    [] s.phase = "ended" -> FALSE
    [] OTHER -> FALSE

\* transitionPhase that starts a new round with every player alive again
transitionPhase_FreshRound(s) ==
  LET nextPhase == getNextPhase(s.phase)
      winCondition == checkWinCondition(s.players)
      newRound == nextPhase = "night" /\ s.phase = "resolution"
  IN  IF winCondition # "none"
      THEN [s EXCEPT !.phase = "ended", !.winner = winCondition]
      ELSE [s EXCEPT !.phase = nextPhase,
                     !.round = IF newRound THEN @ + 1 ELSE @,
                     !.players = IF newRound
                                 THEN [i \in 1..Len(@) |->
                                         [@[i] EXCEPT !.isAlive = TRUE,
                                                      !.hasActedThisRound = FALSE,
                                                      !.hasVotedThisRound = FALSE]]
                                 ELSE @,
                     !.eliminatedToday = NULL,
                     !.killedTonight = NULL,
                     !.savedTonight = NULL]

\* transitionPhase without the win check in front of the transition
transitionPhase_NoWinCheck(s) ==
  LET nextPhase == getNextPhase(s.phase)
      newRound == nextPhase = "night" /\ s.phase = "resolution"
  IN  [s EXCEPT !.phase = nextPhase,
                !.round = IF newRound THEN @ + 1 ELSE @,
                !.players = IF newRound
                            THEN [i \in 1..Len(@) |->
                                    [@[i] EXCEPT !.hasActedThisRound = FALSE,
                                                 !.hasVotedThisRound = FALSE]]
                            ELSE @,
                !.eliminatedToday = NULL,
                !.killedTonight = NULL,
                !.savedTonight = NULL]

transitionPhase(s) ==
  LET nextPhase == getNextPhase(s.phase)
      winCondition == checkWinCondition(s.players)
      newRound == nextPhase = "night" /\ s.phase = "resolution"
  IN  IF winCondition # "none"
      THEN [s EXCEPT !.phase = "ended", !.winner = winCondition]
      ELSE [s EXCEPT !.phase = nextPhase,
                     !.round = IF newRound THEN @ + 1 ELSE @,
                     !.players = IF newRound
                                 THEN [i \in 1..Len(@) |->
                                         [@[i] EXCEPT !.hasActedThisRound = FALSE,
                                                      !.hasVotedThisRound = FALSE]]
                                 ELSE @,
                     !.eliminatedToday = NULL,
                     !.killedTonight = NULL,
                     !.savedTonight = NULL]

advanceGameToNextPhase(s, hunterRevengeTargetId) ==
  IF ~canTransitionPhase(s) THEN s
  ELSE IF s.phase = "night" THEN transitionPhase(resolveNightActions(s))
  ELSE IF s.phase = "voting" THEN transitionPhase(resolveVoting(s, hunterRevengeTargetId))
  ELSE transitionPhase(s)

(***************************************************************************)
(* Rules engine: role assignment (roles.ts)                                *)
(***************************************************************************)
\* Fisher-Yates: for i = n-1 down to 1 swap shuffled[i] and shuffled[j], where
\* j = draws[i] is the value of Math.floor(Math.random() * (i + 1)).
\* Indices are the 0-based ones of the source; the sequence is 1-based.
RECURSIVE ShuffleFrom(_, _, _)
ShuffleFrom(arr, i, draws) ==
  IF i < 1 THEN arr
  ELSE LET j == draws[i]
           swapped == [arr EXCEPT ![i + 1] = arr[j + 1], ![j + 1] = arr[i + 1]]
       IN  ShuffleFrom(swapped, i - 1, draws)

shuffle(arr, draws) == ShuffleFrom(arr, Len(arr) - 1, draws)

\* the outcomes of the random draws offered for an array of n elements:
\* every step keeps its element (j = i), or every step swaps with the front (j = 0)
Draws(n) == {[i \in 1..(n - 1) |-> i], [i \in 1..(n - 1) |-> 0]}

RECURSIVE AddSpecialRoles(_, _, _)
AddSpecialRoles(roles, specialRoles, playerCount) ==
  IF specialRoles = <<>> THEN roles
  ELSE AddSpecialRoles(IF Len(roles) < playerCount
                       THEN Append(roles, Head(specialRoles))
                       ELSE roles,
                       Tail(specialRoles), playerCount)

\* the role list with a single werewolf whatever the settings ask for
RoleList_OneWerewolf(settings) ==
  LET werewolves == <<"werewolf">>
      specialRoles == SelectSeq(settings.includeRoles,
                                LAMBDA r : r # "werewolf" /\ r # "villager")
      withSpecial == AddSpecialRoles(werewolves, specialRoles, settings.playerCount)
  IN  IF Len(withSpecial) < settings.playerCount
      THEN withSpecial \o [i \in 1..(settings.playerCount - Len(withSpecial)) |-> "villager"]
      ELSE withSpecial

\* the role list of generateRoleDistribution before the final shuffle
RoleList(settings) ==
  LET werewolves == [i \in 1..settings.werewolfCount |-> "werewolf"]
      specialRoles == SelectSeq(settings.includeRoles,
                                LAMBDA r : r # "werewolf" /\ r # "villager")
      withSpecial == AddSpecialRoles(werewolves, specialRoles, settings.playerCount)
  IN  IF Len(withSpecial) < settings.playerCount
      THEN withSpecial \o [i \in 1..(settings.playerCount - Len(withSpecial)) |-> "villager"]
      ELSE withSpecial

generateRoleDistribution(settings, draws) == shuffle(RoleList(settings), draws)

assignRoles(ps, settings, draws) ==
  LET roles == generateRoleDistribution(settings, draws)
  IN  [i \in 1..Len(ps) |->
         [ps[i] EXCEPT !.role = IF i <= Len(roles) THEN roles[i] ELSE "villager",
                       !.isAlive = TRUE,
                       !.hasActedThisRound = FALSE,
                       !.hasVotedThisRound = FALSE]]

\* the `errors` list of validateRoleConfiguration
validateRoleConfiguration(settings) ==
  (IF settings.playerCount < MinPlayers THEN <<"Minimum 4 players required">> ELSE <<>>)
  \o (IF settings.werewolfCount < 1 THEN <<"At least 1 werewolf required">> ELSE <<>>)
  \o (IF settings.werewolfCount >= settings.playerCount \div 2
      THEN <<"Werewolves cannot be majority at start">> ELSE <<>>)
  \o (IF Len(settings.includeRoles) > settings.playerCount
      THEN <<"Too many special roles for player count">> ELSE <<>>)

(***************************************************************************)
(* Rules engine: state and operations                                      *)
(***************************************************************************)
\* the settings objects offered to role assignment
SettingsSet ==
  { [playerCount |-> 4, werewolfCount |-> 1, includeRoles |-> <<"doctor", "hunter">>],
    [playerCount |-> 4, werewolfCount |-> 1, includeRoles |-> <<"seer">>] }

NewPlayer(id) ==
  [id |-> id, role |-> NULL, isAlive |-> TRUE,
   hasActedThisRound |-> FALSE, hasVotedThisRound |-> FALSE]

\* a WerewolfGameState in setup with the first n seats taken
NewGameState(n) ==
  [phase |-> "setup", round |-> InitialRound,
   players |-> [i \in 1..n |-> NewPlayer(Ids[i])],
   nightActions |-> <<>>, votes |-> <<>>,
   eliminatedToday |-> NULL, killedTonight |-> NULL, savedTonight |-> NULL,
   winner |-> "none"]

\* the record of the last call: `ok` says that it was applied, `error` that it threw
NoOp ==
  [op |-> "none", actor |-> NULL, target |-> NULL, from |-> NULL, ok |-> TRUE, error |-> FALSE]

\* the AI pipeline at rest: no provider key, no task, no run
NoAI == [apiKey |-> FALSE, tasks |-> <<>>, runs |-> <<>>, orch |-> [pc |-> "idle"]]

EngineIds == {state.players[i].id : i \in 1..Len(state.players)}

\* assignRoles at game start, for settings that pass validateRoleConfiguration
EngineAssignRoles ==
  /\ layer = "engine"
  /\ state.phase = "setup"
  /\ \E settings \in SettingsSet :
       /\ validateRoleConfiguration(settings) = <<>>
       /\ \E draws \in Draws(settings.playerCount) :
            state' = [state EXCEPT !.players = assignRoles(@, settings, draws)]
  /\ lastOp' = [NoOp EXCEPT !.op = "assignRoles", !.from = state.phase]
  /\ UNCHANGED <<layer, ai, game, players, actions, votes>>

\* the submissions offered to the engine: those canPerformNightAction accepts,
\* any submission in the name of an eliminated player, and a further
\* submission during the night by a player who has already acted
NightActionArgs(playerId, targetId) ==
  \/ canPerformNightAction(FindPlayer(state.players, playerId),
                           FindPlayer(state.players, targetId), state)
  \/ ~FindPlayer(state.players, playerId).isAlive
  \/ /\ state.phase = "night"
     /\ FindPlayer(state.players, playerId).hasActedThisRound

\* submitNightAction: the exported function appends the action and sets the
\* actor's flag; it throws only for an unknown player and never consults
\* canPerformNightAction
EngineSubmitNightAction ==
  /\ layer = "engine"
  /\ Len(state.nightActions) < MaxNightActions
  /\ \E playerId \in EngineIds, targetId \in EngineIds \cap Nominees :
       /\ NightActionArgs(playerId, targetId)
       /\ state' = submitNightAction(state, playerId, targetId)
       /\ lastOp' = [NoOp EXCEPT !.op = "submitNightAction", !.actor = playerId,
                                 !.target = targetId, !.from = state.phase]
  /\ UNCHANGED <<layer, ai, game, players, actions, votes>>

\* the votes offered to the engine: those canVote accepts, any vote in the
\* name of an eliminated player, and a further vote during the voting phase
\* by a player who has already voted
VoteArgs(voterId, targetId) ==
  \/ canVote(FindPlayer(state.players, voterId),
             FindPlayer(state.players, targetId), state)
  \/ ~FindPlayer(state.players, voterId).isAlive
  \/ /\ state.phase = "voting"
     /\ FindPlayer(state.players, voterId).hasVotedThisRound

\* submitVote: appends the vote and sets the voter's flag without consulting
\* canVote; targetId NULL is an abstention
EngineSubmitVote ==
  /\ layer = "engine"
  /\ Len(state.votes) < MaxVotes
  /\ \E voterId \in EngineIds, targetId \in (EngineIds \cap Nominees) \cup {NULL} :
       /\ VoteArgs(voterId, targetId)
       /\ state' = submitVote(state, voterId, targetId)
       /\ lastOp' = [NoOp EXCEPT !.op = "submitVote", !.actor = voterId,
                                 !.target = targetId, !.from = state.phase]
  /\ UNCHANGED <<layer, ai, game, players, actions, votes>>

\* advanceGameToNextPhase; the revenge target is read only when leaving voting
EngineAdvance ==
  /\ layer = "engine"
  /\ \E h \in (IF state.phase = "voting" THEN EngineIds \cup {NULL} ELSE {NULL}) :
       /\ state' = advanceGameToNextPhase(state, h)
       /\ lastOp' = [NoOp EXCEPT !.op = "advance", !.target = h, !.from = state.phase,
                                 !.ok = canTransitionPhase(state)]
  /\ UNCHANGED <<layer, ai, game, players, actions, votes>>

EngineNext ==
  \/ EngineAssignRoles
  \/ EngineSubmitNightAction
  \/ EngineSubmitVote
  \/ EngineAdvance


(***************************************************************************)
(* Backend: the games, players, actions and votes tables of one game       *)
(***************************************************************************)
\* the games document after games.create
NewGameDoc == [phase |-> "setup", round |-> InitialRound, winner |-> NULL]

\* a players document after players.join and players.assignRole
NewPlayerDoc(role) ==
  [role |-> role, isAlive |-> TRUE, hasActedThisRound |-> FALSE, hasVotedThisRound |-> FALSE]

\* the arguments clients send to the mutations
ActionTypeArgs == {"kill", "protect"}

\* the id of a players document that is not in this game
Stranger == "p0"

ActorArgs == Nominees \cup {Stranger}

VoterArgs == {Ids[1], Ids[3], Stranger}

WinnerArgs == {"villagers", "none"}

PhaseArgs == {"resolution"}

\* the role each seat was given by players.assignRole
RoleOffer == [id \in IdSet |->
                CASE id = Ids[1] -> "werewolf"
                  [] id = Ids[2] -> "doctor"
                  [] id = Ids[3] -> "hunter"
                  [] OTHER       -> "villager"]

BOp(name, actor, target, ok) ==
  [op |-> name, actor |-> actor, target |-> target, from |-> game.phase,
   ok |-> ok, error |-> ~ok]

\* games.end
BackendEnd ==
  /\ layer = "backend"
  /\ \E winner \in WinnerArgs :
       /\ game' = [game EXCEPT !.phase = "ended", !.winner = winner]
       /\ lastOp' = BOp("end", NULL, winner, TRUE)
  /\ UNCHANGED <<layer, ai, state, players, actions, votes>>

\* games.updatePhase
BackendUpdatePhase ==
  /\ layer = "backend"
  /\ \E phase \in PhaseArgs :
       /\ game' = [game EXCEPT !.phase = phase]
       /\ lastOp' = BOp("updatePhase", NULL, phase, TRUE)
  /\ UNCHANGED <<layer, ai, state, players, actions, votes>>

orderedPhases == <<"setup", "night", "day", "voting", "resolution", "ended">>

\* getNextPhase of the backend phases module
backendGetNextPhase(currentPhase) ==
  LET index == IF \E i \in 1..Len(orderedPhases) : orderedPhases[i] = currentPhase
               THEN CHOOSE i \in 1..Len(orderedPhases) : orderedPhases[i] = currentPhase
               ELSE 0
  IN  IF index = 0 \/ index = Len(orderedPhases) THEN currentPhase
      ELSE orderedPhases[index + 1]

\* the advancePhase mutation
BackendAdvancePhase ==
  /\ layer = "backend"
  /\ IF game.phase = "ended"
     THEN /\ lastOp' = BOp("advancePhase", NULL, NULL, TRUE)
          /\ UNCHANGED <<game, players>>
     ELSE LET nextPhase == backendGetNextPhase(game.phase)
              round == IF nextPhase = "night" THEN game.round + 1 ELSE game.round
          IN  /\ round <= MaxRound
              /\ game' = [game EXCEPT !.phase = nextPhase, !.round = round]
              /\ players' = IF nextPhase = "night" \/ nextPhase = "day"
                            THEN [id \in DOMAIN players |->
                                    [players[id] EXCEPT !.hasActedThisRound = FALSE,
                                                        !.hasVotedThisRound = FALSE]]
                            ELSE players
              /\ lastOp' = BOp("advancePhase", NULL, NULL, TRUE)
  /\ UNCHANGED <<layer, ai, state, actions, votes>>

\* the records of the by_game_and_round index for this round, in insertion order
RoundRecords(table, round) == SelectSeq(table, LAMBDA r : r.round = round)

\* submitNightAction with the patch of the actor's flag moved in front of the
\* phase and liveness checks
BackendSubmitNightAction_FlagFirst ==
  /\ layer = "backend"
  /\ \E playerId \in ActorArgs, targetId \in Nominees, actionType \in ActionTypeArgs :
       LET rejected == \/ game.phase # "night"
                       \/ playerId \notin DOMAIN players
                       \/ ~players[playerId].isAlive
           previous == {i \in 1..Len(actions) :
                          actions[i].round = game.round /\ actions[i].playerId = playerId}
       IN  IF rejected
           THEN /\ lastOp' = BOp("submitNightAction", playerId, NULL, FALSE)
                /\ players' = IF playerId \in DOMAIN players
                              THEN [players EXCEPT ![playerId].hasActedThisRound = TRUE]
                              ELSE players
                /\ UNCHANGED actions
           ELSE IF previous # {}
           THEN /\ actions' = [i \in 1..Len(actions) |->
                                 IF i \in previous /\ \A j \in previous : i <= j
                                 THEN [actions[i] EXCEPT !.targetId = targetId,
                                                         !.actionType = actionType]
                                 ELSE actions[i]]
                /\ lastOp' = BOp("submitNightAction", playerId, NULL, TRUE)
                /\ UNCHANGED players
           ELSE /\ Len(actions) < MaxNightActions
                /\ actions' = Append(actions, [playerId |-> playerId, targetId |-> targetId,
                                               actionType |-> actionType, round |-> game.round])
                /\ players' = [players EXCEPT ![playerId].hasActedThisRound = TRUE]
                /\ lastOp' = BOp("submitNightAction", playerId, NULL, TRUE)
  /\ UNCHANGED <<layer, ai, state, game, votes>>

\* the submitNightAction mutation
BackendSubmitNightAction ==
  /\ layer = "backend"
  /\ \E playerId \in ActorArgs, targetId \in Nominees, actionType \in ActionTypeArgs :
       LET rejected == \/ game.phase # "night"
                       \/ playerId \notin DOMAIN players
                       \/ ~players[playerId].isAlive
           previous == {i \in 1..Len(actions) :
                          actions[i].round = game.round /\ actions[i].playerId = playerId}
       IN  IF rejected
           THEN /\ lastOp' = BOp("submitNightAction", playerId, NULL, FALSE)
                /\ UNCHANGED <<players, actions>>
           ELSE IF previous # {}
           THEN /\ actions' = [i \in 1..Len(actions) |->
                                 IF i \in previous /\ \A j \in previous : i <= j
                                 THEN [actions[i] EXCEPT !.targetId = targetId,
                                                         !.actionType = actionType]
                                 ELSE actions[i]]
                /\ lastOp' = BOp("submitNightAction", playerId, NULL, TRUE)
                /\ UNCHANGED players
           ELSE /\ Len(actions) < MaxNightActions
                /\ actions' = Append(actions, [playerId |-> playerId, targetId |-> targetId,
                                               actionType |-> actionType, round |-> game.round])
                /\ players' = [players EXCEPT ![playerId].hasActedThisRound = TRUE]
                /\ lastOp' = BOp("submitNightAction", playerId, NULL, TRUE)
  /\ UNCHANGED <<layer, ai, state, game, votes>>

\* the player the resolveNightActions mutation eliminates, or NULL
backendNightVictim(as) ==
  LET killTargets == SelectSeq(as, LAMBDA a : a.actionType = "kill" /\ a.targetId # NULL)
      protectTargets == {as[i].targetId : i \in {j \in 1..Len(as) :
                            as[j].actionType = "protect" /\ as[j].targetId # NULL}}
      top == MaxScan(TargetKeys(killTargets), killTargets, 0, NULL)
  IN  IF top # NULL /\ top \in protectTargets THEN NULL ELSE top

\* the resolveNightActions mutation
BackendResolveNightActions ==
  /\ layer = "backend"
  /\ LET eliminatedPlayerId == backendNightVictim(RoundRecords(actions, game.round))
     IN  /\ players' = IF eliminatedPlayerId # NULL
                       THEN [players EXCEPT ![eliminatedPlayerId].isAlive = FALSE]
                       ELSE players
         /\ lastOp' = BOp("resolveNightActions", NULL, eliminatedPlayerId, TRUE)
  /\ UNCHANGED <<layer, ai, state, game, actions, votes>>

\* the castVote mutation; targetId NULL is an omitted target (abstention)
BackendCastVote ==
  /\ layer = "backend"
  /\ \E voterId \in VoterArgs, targetId \in Nominees \cup {NULL} :
       LET rejected == \/ (game.phase # "day" /\ game.phase # "voting")
                       \/ voterId \notin DOMAIN players
                       \/ ~players[voterId].isAlive
           existing == {i \in 1..Len(votes) :
                          votes[i].round = game.round /\ votes[i].voterId = voterId}
       IN  IF rejected
           THEN /\ lastOp' = BOp("castVote", voterId, NULL, FALSE)
                /\ UNCHANGED <<players, votes>>
           ELSE IF existing # {}
           THEN /\ votes' = [i \in 1..Len(votes) |->
                               IF i \in existing /\ \A j \in existing : i <= j
                               THEN [votes[i] EXCEPT !.targetId = targetId]
                               ELSE votes[i]]
                /\ lastOp' = BOp("castVote", voterId, NULL, TRUE)
                /\ UNCHANGED players
           ELSE /\ Len(votes) < MaxVotes
                /\ votes' = Append(votes, [voterId |-> voterId, targetId |-> targetId,
                                           round |-> game.round])
                /\ players' = [players EXCEPT ![voterId].hasVotedThisRound = TRUE]
                /\ lastOp' = BOp("castVote", voterId, NULL, TRUE)
  /\ UNCHANGED <<layer, ai, state, game, actions>>

\* the loop over counts.entries() of the tallyVotes mutation: the running
\* (topTarget, topCount, tie) triple
RECURSIVE BackendTallyScan(_, _, _)
BackendTallyScan(keys, vs, acc) ==
  IF keys = <<>> THEN acc
  ELSE LET count == CountFor(vs, Head(keys))
       IN  IF count > acc.topCount
           THEN BackendTallyScan(Tail(keys), vs,
                                 [topTarget |-> Head(keys), topCount |-> count, tie |-> FALSE])
           ELSE IF count = acc.topCount /\ acc.topCount > 0
           THEN BackendTallyScan(Tail(keys), vs, [acc EXCEPT !.tie = TRUE])
           ELSE BackendTallyScan(Tail(keys), vs, acc)

\* the result of the tallyVotes mutation for the votes of the round
backendTally(vs) ==
  LET scan == BackendTallyScan(TargetKeys(vs), vs,
                               [topTarget |-> NULL, topCount |-> 0, tie |-> FALSE])
  IN  [eliminatedPlayerId |-> IF scan.tie THEN NULL ELSE scan.topTarget, tie |-> scan.tie]

\* what ctx.db.patch(id, ...) can do: a document of this game is patched; an
\* id from outside the game names a document of another game, which is
\* patched there, or a document that players.leave has deleted, and then the
\* patch throws
PatchOutcomes(id) ==
  IF id \in DOMAIN players THEN {"patched"} ELSE {"patched elsewhere", "missing"}

\* the tallyVotes mutation
BackendTallyVotes ==
  /\ layer = "backend"
  /\ LET eliminatedPlayerId == backendTally(RoundRecords(votes, game.round)).eliminatedPlayerId
     IN  IF eliminatedPlayerId = NULL
         THEN /\ lastOp' = BOp("tallyVotes", NULL, NULL, TRUE)
              /\ UNCHANGED players
         ELSE \E outcome \in PatchOutcomes(eliminatedPlayerId) :
                /\ players' = IF outcome = "patched"
                              THEN [players EXCEPT ![eliminatedPlayerId].isAlive = FALSE]
                              ELSE players
                /\ lastOp' = BOp("tallyVotes", NULL, eliminatedPlayerId, outcome # "missing")
  /\ UNCHANGED <<layer, ai, state, game, actions, votes>>

BackendNext ==
  \/ BackendEnd
  \/ BackendUpdatePhase
  \/ BackendAdvancePhase
  \/ BackendSubmitNightAction
  \/ BackendResolveNightActions
  \/ BackendCastVote
  \/ BackendTallyVotes

EngineInit ==
  /\ layer = "engine"
  /\ \E n \in {MinPlayers - 1, MinPlayers} : state = NewGameState(n)
  /\ lastOp = NoOp
  /\ ai = NoAI
  /\ game = NewGameDoc
  /\ players = [id \in IdSet |-> NewPlayerDoc(NULL)]
  /\ actions = <<>>
  /\ votes = <<>>

EngineSpec == EngineInit /\ [][EngineNext]_vars

BackendInit ==
  /\ layer = "backend"
  /\ state = NewGameState(0)
  /\ lastOp = NoOp
  /\ ai = NoAI
  /\ game = NewGameDoc
  /\ players = [id \in IdSet |-> NewPlayerDoc(RoleOffer[id])]
  /\ actions = <<>>
  /\ votes = <<>>

BackendSpec == BackendInit /\ [][BackendNext]_vars

Init == EngineInit \/ BackendInit

Next == EngineNext \/ BackendNext

Spec == Init /\ [][Next]_vars

(***************************************************************************)
(* Vote resolution as a function of the recorded votes: the votes of a     *)
(* voting phase are drawn from bounded sets and resolved by                *)
(* resolveVoting (engine) and tallyVotes (backend).                        *)
(***************************************************************************)
\* the round in which the votes are resolved
TallyRound == 1

\* at most one vote per seat
MaxTallyVotes == Len(Ids)

\* what one recorded vote can be: a vote of the round for one of three seats
\* or for a player outside the game, an abstention, or a vote left over from
\* the round before
VoteChoices ==
  {[targetId |-> t, round |-> TallyRound] : t \in {Ids[1], Ids[2], Ids[3], Stranger, NULL}}
    \cup {[targetId |-> Ids[1], round |-> TallyRound - 1]}

\* the vote lists: the i-th vote is cast by the i-th seat
VoteLists ==
  UNION {{[i \in 1..n |-> [voterId |-> Ids[i], targetId |-> c[i].targetId, round |-> c[i].round]] :
            c \in [1..n -> VoteChoices]} : n \in 0..MaxTallyVotes}

\* the players already eliminated when the votes are resolved
DeadSets == {{}, {Ids[1]}, {Ids[2]}}

EngineVotingInit ==
  /\ layer = "engine"
  /\ \E vs \in VoteLists, dead \in DeadSets :
       state = [NewGameState(Len(Ids)) EXCEPT
                  !.phase = "voting", !.round = TallyRound, !.votes = vs,
                  !.players = [i \in 1..Len(Ids) |->
                                 [NewPlayer(Ids[i]) EXCEPT
                                    !.role = RoleOffer[Ids[i]],
                                    !.isAlive = Ids[i] \notin dead,
                                    !.hasVotedThisRound =
                                       \E j \in 1..Len(vs) :
                                          vs[j].voterId = Ids[i] /\ vs[j].round = TallyRound]]]
  /\ lastOp = NoOp
  /\ ai = NoAI
  /\ game = NewGameDoc
  /\ players = [id \in IdSet |-> NewPlayerDoc(NULL)]
  /\ actions = <<>>
  /\ votes = <<>>

BackendVotingInit ==
  /\ layer = "backend"
  /\ state = NewGameState(0)
  /\ lastOp = NoOp
  /\ ai = NoAI
  /\ game = [NewGameDoc EXCEPT !.phase = "voting", !.round = TallyRound]
  /\ \E dead \in DeadSets :
       players = [id \in IdSet |-> [NewPlayerDoc(RoleOffer[id]) EXCEPT !.isAlive = id \notin dead]]
  /\ actions = <<>>
  /\ votes \in VoteLists

\* a direct call of the exported resolveVoting
EngineResolveVoting ==
  /\ layer = "engine"
  /\ \E h \in EngineIds \cup {NULL} :
       /\ state' = resolveVoting(state, h)
       /\ lastOp' = [NoOp EXCEPT !.op = "resolveVoting", !.target = h, !.from = state.phase]
  /\ UNCHANGED <<layer, ai, game, players, actions, votes>>

VotingInit == EngineVotingInit \/ BackendVotingInit

VotingNext == EngineResolveVoting \/ EngineAdvance \/ BackendTallyVotes

VotingSpec == VotingInit /\ [][VotingNext]_vars

(***************************************************************************)
(* Night resolution as a function of the recorded actions: the actions of  *)
(* a night are drawn from bounded sets and resolved by resolveNightActions *)
(* (engine and backend).                                                   *)
(***************************************************************************)
\* at most one action per seat
MaxNightRecords == Len(Ids)

NightTargets == {Ids[1], Ids[2], Ids[3]}

\* what one record of the engine can be: submitNightAction stores the kind
\* of the actor's role, so the werewolf's records are kills and the doctor's
\* are protections; or a record left over from the round before
EngineActionChoices ==
  {[playerId |-> p, targetId |-> t, actionType |-> getNightActionType(RoleOffer[p]),
    round |-> TallyRound] : p \in {Ids[1], Ids[2], Ids[3]}, t \in NightTargets}
    \cup {[playerId |-> Ids[1], targetId |-> Ids[1], actionType |-> "kill",
           round |-> TallyRound - 1]}

EngineActionLists == UNION {[1..n -> EngineActionChoices] : n \in 0..MaxNightRecords}

\* what the record of one seat can be in the backend, where the kind comes
\* from the caller
BackendActionChoices ==
  {[targetId |-> t, actionType |-> k, round |-> TallyRound] :
     t \in NightTargets, k \in {"kill", "protect", "investigate"}}
    \cup {[targetId |-> Ids[1], actionType |-> "kill", round |-> TallyRound - 1]}

\* the action tables: the i-th record belongs to the i-th seat
BackendActionLists ==
  UNION {{[i \in 1..n |-> [playerId |-> Ids[i], targetId |-> c[i].targetId,
                           actionType |-> c[i].actionType, round |-> c[i].round]] :
            c \in [1..n -> BackendActionChoices]} : n \in 0..MaxNightRecords}

EngineNightInit ==
  /\ layer = "engine"
  /\ \E as \in EngineActionLists, dead \in DeadSets :
       state = [NewGameState(Len(Ids)) EXCEPT
                  !.phase = "night", !.round = TallyRound, !.nightActions = as,
                  !.players = [i \in 1..Len(Ids) |->
                                 [NewPlayer(Ids[i]) EXCEPT
                                    !.role = RoleOffer[Ids[i]],
                                    !.isAlive = Ids[i] \notin dead,
                                    !.hasActedThisRound =
                                       \E j \in 1..Len(as) :
                                          as[j].playerId = Ids[i] /\ as[j].round = TallyRound]]]
  /\ lastOp = NoOp
  /\ ai = NoAI
  /\ game = NewGameDoc
  /\ players = [id \in IdSet |-> NewPlayerDoc(NULL)]
  /\ actions = <<>>
  /\ votes = <<>>

BackendNightInit ==
  /\ layer = "backend"
  /\ state = NewGameState(0)
  /\ lastOp = NoOp
  /\ ai = NoAI
  /\ game = [NewGameDoc EXCEPT !.phase = "night", !.round = TallyRound]
  /\ \E dead \in DeadSets :
       players = [id \in IdSet |-> [NewPlayerDoc(RoleOffer[id]) EXCEPT !.isAlive = id \notin dead]]
  /\ actions \in BackendActionLists
  /\ votes = <<>>

\* a direct call of the exported resolveNightActions
EngineResolveNightActions ==
  /\ layer = "engine"
  /\ state' = resolveNightActions(state)
  /\ lastOp' = [NoOp EXCEPT !.op = "resolveNight", !.from = state.phase]
  /\ UNCHANGED <<layer, ai, game, players, actions, votes>>

NightInit == EngineNightInit \/ BackendNightInit

NightNext == EngineResolveNightActions \/ EngineAdvance \/ BackendResolveNightActions

NightSpec == NightInit /\ [][NightNext]_vars

(***************************************************************************)
(* The win condition as a function of the roster: rosters are drawn from   *)
(* bounded sets and judged by checkWinCondition.                           *)
(***************************************************************************)
\* the largest roster drawn
MaxRoster == 5

\* the ids of the seats of a drawn roster, in join order
SeatIds == Ids \o <<"p5", "p6", "p7">>

\* the roles dealt in a drawn roster
RosterRoles == {"werewolf", "villager", "seer"}

\* the rosters: every seat has a role and is alive or dead
Rosters ==
  UNION {{[i \in 1..n |-> [NewPlayer(SeatIds[i]) EXCEPT !.role = r[i], !.isAlive = a[i]]] :
            r \in [1..n -> RosterRoles], a \in [1..n -> BOOLEAN]} : n \in 0..MaxRoster}

WinInit ==
  /\ layer = "engine"
  /\ \E ps \in Rosters : state = [NewGameState(0) EXCEPT !.phase = "day", !.players = ps]
  /\ lastOp = NoOp
  /\ ai = NoAI
  /\ game = NewGameDoc
  /\ players = [id \in IdSet |-> NewPlayerDoc(NULL)]
  /\ actions = <<>>
  /\ votes = <<>>

\* a direct call of the exported checkWinCondition; the returned value is kept
\* in state.winner, where transitionPhase keeps it
EngineCheckWinCondition ==
  /\ layer = "engine"
  /\ state' = [state EXCEPT !.winner = checkWinCondition(state.players)]
  /\ lastOp' = [NoOp EXCEPT !.op = "checkWinCondition", !.from = state.phase]
  /\ UNCHANGED <<layer, ai, game, players, actions, votes>>

WinNext == EngineCheckWinCondition

WinSpec == WinInit /\ [][WinNext]_vars

(***************************************************************************)
(* Role configuration as a function of the settings: settings objects are  *)
(* drawn from bounded sets, validated by validateRoleConfiguration and     *)
(* dealt by assignRoles to a roster of playerCount seats.                  *)
(***************************************************************************)
\* the largest playerCount and werewolfCount drawn
MaxPlayerCount == 6

MaxWerewolfCount == 3

\* the includeRoles arrays: every role at most once, in any order
IncludeLists ==
  {l \in UNION {[1..n -> Roles] : n \in 0..Cardinality(Roles)} :
     \A i, j \in 1..Len(l) : i # j => l[i] # l[j]}

DrawnSettings ==
  {[playerCount |-> pc, werewolfCount |-> wc, includeRoles |-> l] :
     pc \in (MinPlayers - 1)..MaxPlayerCount, wc \in 0..MaxWerewolfCount, l \in IncludeLists}

\* the value of `validation` before validateRoleConfiguration was called
NotValidated == [valid |-> FALSE, errors |-> <<"not validated">>]

\* a game in setup with its settings, playerCount seats taken and no role dealt
RolesInit ==
  /\ layer = "engine"
  /\ \E settings \in DrawnSettings :
       state = [settings |-> settings, validation |-> NotValidated,
                phase |-> "setup", round |-> InitialRound,
                players |-> [i \in 1..settings.playerCount |-> NewPlayer(SeatIds[i])],
                nightActions |-> <<>>, votes |-> <<>>,
                eliminatedToday |-> NULL, killedTonight |-> NULL, savedTonight |-> NULL,
                winner |-> "none"]
  /\ lastOp = NoOp
  /\ ai = NoAI
  /\ game = NewGameDoc
  /\ players = [id \in IdSet |-> NewPlayerDoc(NULL)]
  /\ actions = <<>>
  /\ votes = <<>>

\* a direct call of validateRoleConfiguration; the returned object is kept in
\* state.validation
EngineValidateRoleConfiguration ==
  /\ layer = "engine"
  /\ LET errors == validateRoleConfiguration(state.settings)
     IN  /\ state' = [state EXCEPT !.validation = [valid |-> errors = <<>>, errors |-> errors]]
         /\ lastOp' = [NoOp EXCEPT !.op = "validateRoleConfiguration",
                                   !.from = state.phase, !.ok = errors = <<>>]
  /\ UNCHANGED <<layer, ai, game, players, actions, votes>>

\* a direct call of assignRoles with the game's own settings
EngineAssignDrawnRoles ==
  /\ layer = "engine"
  /\ \E draws \in Draws(Len(RoleList(state.settings))) :
       state' = [state EXCEPT !.players = assignRoles(@, state.settings, draws)]
  /\ lastOp' = [NoOp EXCEPT !.op = "assignRoles", !.from = state.phase]
  /\ UNCHANGED <<layer, ai, game, players, actions, votes>>

RolesNext == EngineValidateRoleConfiguration \/ EngineAssignDrawnRoles

RolesSpec == RolesInit /\ [][RolesNext]_vars

(***************************************************************************)
(* AI decisions (convex/lib/aiDecisions.ts): parsing of the provider's     *)
(* text, validation of the parsed target and the fallback policy.          *)
(* Player names and the wording of prompts are left out; a reasoning is    *)
(* kept as the label of the branch that wrote it.                          *)
(***************************************************************************)
\* what the text of the provider can be, as parseAIDecision reads it: a JSON
\* object with a target field ("json"), prose with an id after a keyword
\* ("keyword"), or text with neither ("text")
ResponseForms == {"json", "keyword", "text"}

\* parseAIDecision: `parsed` is FALSE where the source returns null.  A JSON
\* target that is missing, empty, the word null or not a string reads as null.
parseAIDecision(response) ==
  CASE response.form = "json" ->
         [parsed |-> TRUE,
          targetId |-> IF response.target \in {NULL, ""} THEN NULL ELSE response.target,
          reasoning |-> "parsed"]
    [] response.form = "keyword" /\ response.target \notin {NULL, ""} ->
         [parsed |-> TRUE, targetId |-> response.target, reasoning |-> "extracted"]
    [] OTHER -> [parsed |-> FALSE, targetId |-> NULL, reasoning |-> NULL]

validateTargetId(targetId, validIds) ==
  IF targetId = NULL THEN NULL
  ELSE IF targetId \in Range(validIds) THEN targetId ELSE NULL

\* the decisions selectByDifficulty can return: one for every value of
\* Math.random()
selectByDifficulty(targets, options) ==
  CASE options.difficulty = "medium" ->
         LET half == Len(targets) \div 2
             halfIdx == IF half > 1 THEN half ELSE 1
         IN  {[targetId |-> targets[i], reasoning |-> "medium"] : i \in 1..halfIdx}
    [] options.difficulty = "hard" ->
         LET investigated == {options.investigationResults[i].playerId :
                                i \in 1..Len(options.investigationResults)}
             uninvestigated == SelectSeq(targets, LAMBDA t : t \notin investigated)
         IN  IF Len(options.investigationResults) > 0 /\ uninvestigated # <<>>
             THEN {[targetId |-> uninvestigated[1], reasoning |-> "hard uninvestigated"]}
             ELSE {[targetId |-> targets[1], reasoning |-> "hard"]}
    [] OTHER ->
         {[targetId |-> targets[i], reasoning |-> "random"] : i \in 1..Len(targets)}

\* the decisions fallbackDecision can return: one for every value of
\* Math.random().  An absent knownWerewolves or investigationResults is the
\* empty sequence, an absent selfId is NULL.
fallbackDecision(role, phase, candidates, options) ==
  IF candidates = <<>>
  THEN {[targetId |-> NULL, reasoning |-> "no targets"]}
  ELSE LET wolves == Range(options.knownWerewolves)
           filtered == SelectSeq(candidates, LAMBDA c : c \notin wolves)
           targets == IF role = "werewolf" /\ Len(options.knownWerewolves) > 0
                         /\ filtered # <<>>
                      THEN filtered ELSE candidates
           wolfResults == SelectSeq(options.investigationResults, LAMBDA r : r.isWerewolf)
       IN  IF /\ phase \in {"voting", "day"}
              /\ wolfResults # <<>>
              /\ wolfResults[1].playerId \in Range(targets)
           THEN {[targetId |-> wolfResults[1].playerId, reasoning |-> "confirmed werewolf"]}
           ELSE (IF role = "doctor" /\ phase = "night" /\ options.selfId # NULL
                 THEN {[targetId |-> options.selfId, reasoning |-> "self-protection"]}
                 ELSE {})
                \cup selectByDifficulty(targets, options)

\* makeFallback of the AI engine: the candidates are the alive players other
\* than the task's player
makeFallback(role, phase, alivePlayers, playerId, opts) ==
  fallbackDecision(role, phase,
                   SelectSeq(alivePlayers, LAMBDA p : p # playerId),
                   [difficulty |-> opts.difficulty,
                    knownWerewolves |-> opts.knownWerewolves,
                    investigationResults |-> opts.investigationResults,
                    selfId |-> playerId])

(***************************************************************************)
(* AI tasks (convex/ai.ts) and the AI engine (convex/aiEngine.ts)          *)
(***************************************************************************)
\* the players of the game in the order of the by_game index
AllPlayers == SelectSeq(Ids, LAMBDA id : id \in DOMAIN players)

\* settings.aiDifficulty of the game
SettingsDifficulty == "medium"

\* getGameContext: the player (NoPlayer when the id is absent or unknown), the
\* alive players, the alive allied werewolves of a werewolf and the
\* investigation results of a seer; the last two are empty where the source
\* leaves them undefined
getGameContext(playerId) ==
  LET player == IF playerId \in DOMAIN players THEN players[playerId] ELSE NoPlayer
      investigations == SelectSeq(actions, LAMBDA a :
                           /\ a.playerId = playerId
                           /\ a.actionType = "investigate"
                           /\ a.targetId # NULL
                           /\ a.targetId \in DOMAIN players)
  IN  [player |-> player,
       found |-> playerId \in DOMAIN players,
       alivePlayers |-> SelectSeq(AllPlayers, LAMBDA id : players[id].isAlive),
       knownWerewolves |->
         IF player.role = "werewolf"
         THEN SelectSeq(AllPlayers, LAMBDA id :
                players[id].role = "werewolf" /\ id # playerId /\ players[id].isAlive)
         ELSE <<>>,
       investigationResults |->
         IF player.role = "seer"
         THEN [i \in 1..Len(investigations) |->
                 [playerId |-> investigations[i].targetId,
                  isWerewolf |-> players[investigations[i].targetId].role = "werewolf"]]
         ELSE <<>>]

\* a task's result before completeTask wrote one.  `decision` says that the
\* result has a decision field; a narration result has none.
NoResult ==
  [decision |-> FALSE, targetId |-> NULL, reasoning |-> <<>>, source |-> NULL,
   fallbackReason |-> NULL]

\* an aiTasks document after queueTaskInternal
NewTask(playerId, taskType) ==
  [playerId |-> playerId, taskType |-> taskType, status |-> "queued",
   result |-> NoResult, error |-> NULL]

\* one invocation of the processTask action: its position, its task, the
\* result it holds, the message of the error it caught, whether the
\* fallback made the target it holds, and how its last call of
\* processWithFallback ended ("returned", "threw", or NULL before any)
IdleRun ==
  [pc |-> "idle", taskId |-> 0, result |-> NoResult, message |-> NULL,
   byFallback |-> FALSE, fallback |-> NULL]

\* the invocations: the one the orchestrator awaits and one scheduled by the
\* public processTask mutation
RunIds == {"inline", "scheduled"}

\* the texts the provider can answer with
Responses ==
  {[form |-> f, target |-> t] : f \in {"json", "keyword"}, t \in IdSet \cup {NULL}}
    \cup {[form |-> "text", target |-> NULL]}

\* what a call of the provider or of an internal query can do
CallOutcomes == {"returns", "throws"}

\* player?.aiDifficulty ?? fallback
DifficultyOf(c, default) ==
  IF c.found /\ c.player.aiDifficulty # NULL THEN c.player.aiDifficulty ELSE default

\* player?.role ?? "villager"
RoleOf(c) == IF c.found /\ c.player.role # NULL THEN c.player.role ELSE "villager"

\* the results processPlayerDecision can return for this text of the provider
processPlayerDecision(playerId, response) ==
  LET c == getGameContext(playerId)
      parsed == parseAIDecision(response)
      validTargetIds == SelectSeq(c.alivePlayers, LAMBDA id : id # playerId)
      validated == validateTargetId(parsed.targetId, validTargetIds)
      fbs == makeFallback(RoleOf(c), game.phase, c.alivePlayers, playerId,
                          [difficulty |-> DifficultyOf(c, SettingsDifficulty),
                           knownWerewolves |-> c.knownWerewolves,
                           investigationResults |-> c.investigationResults])
  IN  IF parsed.parsed
      THEN IF parsed.targetId # NULL /\ validated = NULL
           THEN {[result |-> [decision |-> TRUE, targetId |-> fb.targetId,
                              reasoning |-> <<parsed.reasoning, "target corrected", fb.reasoning>>,
                              source |-> "openrouter", fallbackReason |-> NULL],
                  byFallback |-> TRUE] : fb \in fbs}
           ELSE {[result |-> [decision |-> TRUE, targetId |-> validated,
                              reasoning |-> <<parsed.reasoning>>,
                              source |-> "openrouter", fallbackReason |-> NULL],
                  byFallback |-> FALSE]}
      ELSE {[result |-> [decision |-> TRUE, targetId |-> fb.targetId,
                         reasoning |-> <<"Fallback", fb.reasoning>>,
                         source |-> "openrouter", fallbackReason |-> NULL],
             byFallback |-> TRUE] : fb \in fbs}

\* the results processWithFallback can return
processWithFallback(task) ==
  IF task.taskType # "player_decision"
  THEN {[result |-> [NoResult EXCEPT !.source = "fallback"], byFallback |-> TRUE]}
  ELSE LET c == getGameContext(task.playerId)
           fbs == makeFallback(RoleOf(c), game.phase, c.alivePlayers, task.playerId,
                               [difficulty |-> DifficultyOf(c, "medium"),
                                knownWerewolves |-> c.knownWerewolves,
                                investigationResults |-> c.investigationResults])
       IN  {[result |-> [decision |-> TRUE, targetId |-> fb.targetId,
                         reasoning |-> <<fb.reasoning>>,
                         source |-> "fallback", fallbackReason |-> NULL],
              byFallback |-> TRUE] : fb \in fbs}

\* whether the internal query of processWithFallback can fail: only a
\* player_decision runs one
FallbackOutcomes(task) ==
  IF task.taskType = "player_decision" THEN CallOutcomes ELSE {"returns"}

\* processTask, lines 99-105: read the task; anything but a queued task ends
\* the invocation
ProcessTaskRead(r) ==
  /\ ai.runs[r].pc = "read"
  /\ ai' = [ai EXCEPT !.runs[r].pc =
                        IF ai.tasks[ai.runs[r].taskId].status = "queued"
                        THEN "mark" ELSE "done"]

\* lines 108-111: updateTaskStatus(running)
ProcessTaskMarkRunning(r) ==
  /\ ai.runs[r].pc = "mark"
  /\ ai' = [ai EXCEPT !.tasks[ai.runs[r].taskId].status = "running",
                      !.runs[r].pc = "process"]

\* lines 113-122: with an API key the provider is called, without one the
\* fallback runs inside the try block; a throw is caught at line 130
ProcessTaskTry(r) ==
  /\ ai.runs[r].pc = "process"
  /\ LET task == ai.tasks[ai.runs[r].taskId]
     IN  IF ai.apiKey
         THEN \/ ai' = [ai EXCEPT !.runs[r].pc = "catch",
                                  !.runs[r].message = "provider error"]
              \/ /\ task.taskType # "player_decision"
                 /\ ai' = [ai EXCEPT !.runs[r].pc = "complete",
                                     !.runs[r].result = [NoResult EXCEPT !.source = "openrouter"]]
              \/ /\ task.taskType = "player_decision"
                 /\ getGameContext(task.playerId).found
                 /\ \E response \in Responses :
                      \E out \in processPlayerDecision(task.playerId, response) :
                        ai' = [ai EXCEPT !.runs[r].pc = "complete",
                                         !.runs[r].result = out.result,
                                         !.runs[r].byFallback = out.byFallback]
         ELSE \E outcome \in FallbackOutcomes(task) :
                IF outcome = "throws"
                THEN ai' = [ai EXCEPT !.runs[r].pc = "catch",
                                      !.runs[r].message = "query error",
                                      !.runs[r].fallback = "threw"]
                ELSE \E out \in processWithFallback(task) :
                       ai' = [ai EXCEPT !.runs[r].pc = "complete",
                                        !.runs[r].result = out.result,
                                        !.runs[r].byFallback = out.byFallback,
                                        !.runs[r].fallback = "returned"]

\* the catch block that gives the task up although its fallback returned
ProcessTaskCatch_GiveUp(r) ==
  /\ ai.runs[r].pc = "catch"
  /\ LET task == ai.tasks[ai.runs[r].taskId]
     IN  \E outcome \in FallbackOutcomes(task) :
           ai' = [ai EXCEPT !.runs[r].pc = "fail",
                            !.runs[r].fallback = IF outcome = "throws"
                                                 THEN "threw" ELSE "returned"]

\* lines 130-141 and 142-143: the fallback inside the catch block; its result
\* carries the caught message as fallbackReason, its own throw leads to failTask
ProcessTaskCatch(r) ==
  /\ ai.runs[r].pc = "catch"
  /\ LET task == ai.tasks[ai.runs[r].taskId]
     IN  \E outcome \in FallbackOutcomes(task) :
           IF outcome = "throws"
           THEN ai' = [ai EXCEPT !.runs[r].pc = "fail", !.runs[r].fallback = "threw"]
           ELSE \E out \in processWithFallback(task) :
                  ai' = [ai EXCEPT !.runs[r].pc = "complete",
                                   !.runs[r].result =
                                      [out.result EXCEPT !.fallbackReason = ai.runs[r].message],
                                   !.runs[r].byFallback = out.byFallback,
                                   !.runs[r].fallback = "returned"]

\* the completeTask mutation
ProcessTaskComplete(r) ==
  /\ ai.runs[r].pc = "complete"
  /\ ai' = [ai EXCEPT !.tasks[ai.runs[r].taskId] =
                         [@ EXCEPT !.status = "completed",
                                   !.result = ai.runs[r].result,
                                   !.error = NULL],
                      !.runs[r].pc = "done"]

\* the failTask mutation
ProcessTaskFail(r) ==
  /\ ai.runs[r].pc = "fail"
  /\ ai' = [ai EXCEPT !.tasks[ai.runs[r].taskId] =
                         [@ EXCEPT !.status = "failed", !.error = ai.runs[r].message],
                      !.runs[r].pc = "done"]

\* one step of one invocation of the processTask action
AiProcessTask ==
  /\ layer = "backend"
  /\ \E r \in RunIds :
       \/ ProcessTaskRead(r)
       \/ ProcessTaskMarkRunning(r)
       \/ ProcessTaskTry(r)
       \/ ProcessTaskCatch(r)
       \/ ProcessTaskComplete(r)
       \/ ProcessTaskFail(r)
  /\ lastOp' = BOp("processTask", NULL, NULL, TRUE)
  /\ UNCHANGED <<layer, state, game, players, actions, votes>>

\* the public processTask mutation of convex/ai.ts: a task that is still
\* queued gets one more invocation of the engine's processTask scheduled; a
\* game gets one such invocation
AiClientProcessTask ==
  /\ layer = "backend"
  /\ ai.runs["scheduled"].pc = "idle"
  /\ \E taskId \in 1..Len(ai.tasks) :
       /\ ai.tasks[taskId].status = "queued"
       /\ ai' = [ai EXCEPT !.runs["scheduled"] =
                             [IdleRun EXCEPT !.pc = "read", !.taskId = taskId]]
  /\ lastOp' = BOp("ai.processTask", NULL, NULL, TRUE)
  /\ UNCHANGED <<layer, state, game, players, actions, votes>>

\* getAIPlayersForPhase: the alive AI players, at night those with a role
\* that acts at night
getAIPlayersForPhase(phase) ==
  SelectSeq(AllPlayers, LAMBDA id :
    /\ players[id].isAI
    /\ players[id].isAlive
    /\ phase = "night" => players[id].role \in {"werewolf", "seer", "doctor"})

getActionTypeForRole(role) ==
  CASE role = "werewolf" -> "kill"
    [] role = "seer" -> "investigate"
    [] role = "doctor" -> "protect"
    [] OTHER -> "none"

\* onPhaseAdvance, lines 453-481: the narration task is queued and its
\* processing begun
OrchQueueNarration ==
  /\ ai.orch.pc = "scheduled"
  /\ ai' = [ai EXCEPT !.tasks = Append(@, NewTask(NULL, "narration")),
                      !.runs["inline"] = [IdleRun EXCEPT !.pc = "read",
                                                         !.taskId = Len(ai.tasks) + 1],
                      !.orch.pc = "narration"]
  /\ lastOp' = BOp("onPhaseAdvance", NULL, NULL, TRUE)
  /\ UNCHANGED <<players, actions, votes>>

\* lines 484-488 with 495-498 and 540-543: once the narration was processed,
\* the AI players of the phase are read
OrchTrigger ==
  /\ ai.orch.pc = "narration"
  /\ ai.runs["inline"].pc = "done"
  /\ ai' = [ai EXCEPT !.runs["inline"] = IdleRun,
                      !.orch.pc = "loop",
                      !.orch.seats =
                         getAIPlayersForPhase(IF ai.orch.phase = "night"
                                              THEN "night" ELSE "voting")]
  /\ lastOp' = BOp("onPhaseAdvance", NULL, NULL, TRUE)
  /\ UNCHANGED <<players, actions, votes>>

\* lines 500-510 and 545-559: the decision task of the next AI player is
\* queued and its processing begun; after the last player the action ends
OrchQueueDecision ==
  /\ ai.orch.pc = "loop"
  /\ IF ai.orch.seats = <<>>
     THEN ai' = [ai EXCEPT !.orch.pc = "done"]
     ELSE ai' = [ai EXCEPT !.tasks = Append(@, NewTask(Head(ai.orch.seats), "player_decision")),
                           !.runs["inline"] = [IdleRun EXCEPT !.pc = "read",
                                                              !.taskId = Len(ai.tasks) + 1],
                           !.orch.pc = "await",
                           !.orch.taskId = Len(ai.tasks) + 1]
  /\ lastOp' = BOp("onPhaseAdvance", NULL, NULL, TRUE)
  /\ UNCHANGED <<players, actions, votes>>

\* lines 513-522 and 561-567: the task is read back; a task that is not
\* completed, and at night a role without an action or a result without a
\* target, sends the loop to the next player
OrchReadResult ==
  /\ ai.orch.pc = "await"
  /\ ai.runs["inline"].pc = "done"
  /\ LET completedTask == ai.tasks[ai.orch.taskId]
         player == Head(ai.orch.seats)
         targetId == completedTask.result.targetId
         skip == \/ completedTask.status # "completed"
                 \/ /\ ai.orch.phase = "night"
                    /\ \/ getActionTypeForRole(players[player].role) = "none"
                       \/ targetId = NULL
     IN  ai' = IF skip
               THEN [ai EXCEPT !.runs["inline"] = IdleRun,
                               !.orch.pc = "loop",
                               !.orch.seats = Tail(@)]
               ELSE [ai EXCEPT !.runs["inline"] = IdleRun,
                               !.orch.pc = "submit",
                               !.orch.targetId = targetId]
  /\ lastOp' = BOp("onPhaseAdvance", NULL, NULL, TRUE)
  /\ UNCHANGED <<players, actions, votes>>

\* lines 525-533: the submitNightAction mutation for the AI player; its
\* throw is caught and logged
OrchSubmitNightAction ==
  /\ ai.orch.pc = "submit"
  /\ ai.orch.phase = "night"
  /\ LET playerId == Head(ai.orch.seats)
         targetId == ai.orch.targetId
         actionType == getActionTypeForRole(players[playerId].role)
         rejected == \/ game.phase # "night"
                     \/ playerId \notin DOMAIN players
                     \/ ~players[playerId].isAlive
         previous == {i \in 1..Len(actions) :
                        actions[i].round = game.round /\ actions[i].playerId = playerId}
     IN  /\ IF rejected
            THEN UNCHANGED <<players, actions>>
            ELSE IF previous # {}
            THEN /\ actions' = [i \in 1..Len(actions) |->
                                  IF i \in previous /\ \A j \in previous : i <= j
                                  THEN [actions[i] EXCEPT !.targetId = targetId,
                                                          !.actionType = actionType]
                                  ELSE actions[i]]
                 /\ UNCHANGED players
            ELSE /\ actions' = Append(actions, [playerId |-> playerId, targetId |-> targetId,
                                                actionType |-> actionType, round |-> game.round])
                 /\ players' = [players EXCEPT ![playerId].hasActedThisRound = TRUE]
         /\ lastOp' = BOp("submitNightAction", playerId, targetId, ~rejected)
  /\ ai' = [ai EXCEPT !.orch.pc = "loop", !.orch.seats = Tail(@), !.orch.targetId = NULL]
  /\ UNCHANGED votes

\* lines 569-577: the castVote mutation for the AI player, without a target
\* when the result has none; its throw is caught and logged
OrchCastVote ==
  /\ ai.orch.pc = "submit"
  /\ ai.orch.phase # "night"
  /\ LET voterId == Head(ai.orch.seats)
         targetId == ai.orch.targetId
         rejected == \/ (game.phase # "day" /\ game.phase # "voting")
                     \/ voterId \notin DOMAIN players
                     \/ ~players[voterId].isAlive
         existing == {i \in 1..Len(votes) :
                        votes[i].round = game.round /\ votes[i].voterId = voterId}
     IN  /\ IF rejected
            THEN UNCHANGED <<players, votes>>
            ELSE IF existing # {}
            THEN /\ votes' = [i \in 1..Len(votes) |->
                                IF i \in existing /\ \A j \in existing : i <= j
                                THEN [votes[i] EXCEPT !.targetId = targetId]
                                ELSE votes[i]]
                 /\ UNCHANGED players
            ELSE /\ votes' = Append(votes, [voterId |-> voterId, targetId |-> targetId,
                                            round |-> game.round])
                 /\ players' = [players EXCEPT ![voterId].hasVotedThisRound = TRUE]
         /\ lastOp' = BOp("castVote", voterId, targetId, ~rejected)
  /\ ai' = [ai EXCEPT !.orch.pc = "loop", !.orch.seats = Tail(@), !.orch.targetId = NULL]
  /\ UNCHANGED actions

\* one step of the onPhaseAdvance action
AiOrchestrate ==
  /\ layer = "backend"
  /\ \/ OrchQueueNarration
     \/ OrchTrigger
     \/ OrchQueueDecision
     \/ OrchReadResult
     \/ OrchSubmitNightAction
     \/ OrchCastVote
  /\ UNCHANGED <<layer, state, game>>

\* the steps the scheduler of the backend takes by itself
AiEngineNext == AiProcessTask \/ AiOrchestrate

AiNext == AiEngineNext \/ AiClientProcessTask

\* a players document of a game with AI seats
AiPlayerDoc(role, isAlive, isAI, aiDifficulty) ==
  [role |-> role, isAlive |-> isAlive, hasActedThisRound |-> FALSE,
   hasVotedThisRound |-> FALSE, isAI |-> isAI, aiDifficulty |-> aiDifficulty]

\* the role and difficulty of the AI player in the first seat
AiSeatOffers ==
  {[role |-> "werewolf", aiDifficulty |-> "hard"],
   [role |-> "werewolf", aiDifficulty |-> NULL],
   [role |-> "doctor", aiDifficulty |-> "easy"],
   [role |-> "seer", aiDifficulty |-> "hard"],
   [role |-> "villager", aiDifficulty |-> "easy"]}

\* the round in which the orchestrator runs
AiRound == 1

\* the investigations a seer in the first seat made in the round before
PastInvestigations ==
  {<<>>, <<[playerId |-> Ids[1], targetId |-> Ids[2], actionType |-> "investigate",
            round |-> AiRound - 1]>>}

\* a game whose advancePhase mutation has just scheduled onPhaseAdvance for
\* the night or the vote of round AiRound: the first seat is an AI player, the
\* second a werewolf (an AI player too in some games without a provider
\* key), the others villagers, alive or eliminated
AiInit ==
  /\ layer = "backend"
  /\ state = NewGameState(0)
  /\ \E phase \in {"night", "voting"}, apiKey \in BOOLEAN :
       /\ game = [NewGameDoc EXCEPT !.phase = phase, !.round = AiRound]
       /\ ai = [apiKey |-> apiKey, tasks |-> <<>>,
                runs |-> [r \in RunIds |-> IdleRun],
                orch |-> [pc |-> "scheduled", phase |-> phase, seats |-> <<>>,
                          taskId |-> 0, targetId |-> NULL]]
       /\ \E offer \in AiSeatOffers, othersAlive \in BOOLEAN,
             secondIsAI \in (IF apiKey THEN {FALSE} ELSE BOOLEAN) :
            /\ players =
                 [id \in IdSet |->
                    CASE id = Ids[1] -> AiPlayerDoc(offer.role, TRUE, TRUE, offer.aiDifficulty)
                      [] id = Ids[2] -> AiPlayerDoc("werewolf", TRUE, secondIsAI, NULL)
                      [] OTHER -> AiPlayerDoc("villager", othersAlive, FALSE, NULL)]
            /\ actions \in (IF offer.role = "seer" THEN PastInvestigations ELSE {<<>>})
  /\ lastOp = NoOp
  /\ votes = <<>>

AiSpec == AiInit /\ [][AiNext]_vars

\* the scheduler runs every action it has started or scheduled to its end
AiLiveSpec == AiSpec /\ WF_vars(AiEngineNext)

(***************************************************************************)
(* The fallback policy as a function: role, phase, candidates and options  *)
(* are drawn from bounded sets and decided by fallbackDecision.  Here `ai` *)
(* holds the arguments of the call and the decision returned.              *)
(***************************************************************************)
\* the most investigation results handed to the policy
MaxInvestigations == 2

\* the player the decision is made for, and the players that can be
\* candidates and subjects of an investigation
FallbackSelf == Ids[1]

FallbackOthers == Tail(Ids)

\* candidate lists: the other players that are alive, in roster order
CandidateLists ==
  {SelectSeq(FallbackOthers, LAMBDA id : id \in alive) :
     alive \in SUBSET Range(FallbackOthers)}

\* investigation results in every order and with every content
InvestigationLists ==
  UNION {[1..n -> [playerId : Range(FallbackOthers), isWerewolf : BOOLEAN]] :
           n \in 0..MaxInvestigations}

\* the options getGameContext can supply for a role: allies for a werewolf
\* only, investigation results for a seer only
FallbackOptionsOf(role) ==
  {[difficulty |-> d, knownWerewolves |-> kw, investigationResults |-> ir,
    selfId |-> FallbackSelf] :
     d \in {"easy", "medium", "hard"},
     kw \in (IF role = "werewolf" THEN {<<>>, <<Ids[2]>>} ELSE {<<>>}),
     ir \in (IF role = "seer" THEN InvestigationLists ELSE {<<>>})}

NoDecision == [targetId |-> NULL, reasoning |-> "pending"]

FallbackInit ==
  /\ layer = "backend"
  /\ state = NewGameState(0)
  /\ lastOp = NoOp
  /\ game = NewGameDoc
  /\ players = [id \in IdSet |-> NewPlayerDoc(NULL)]
  /\ actions = <<>>
  /\ votes = <<>>
  /\ \E role \in {"werewolf", "seer", "doctor", "villager"},
        phase \in {"night", "day", "voting"},
        candidates \in CandidateLists :
       \E options \in FallbackOptionsOf(role) :
         ai = [role |-> role, phase |-> phase, candidates |-> candidates,
               options |-> options, decided |-> FALSE, decision |-> NoDecision]

\* one call of fallbackDecision
FallbackDecide ==
  /\ ~ai.decided
  /\ \E d \in fallbackDecision(ai.role, ai.phase, ai.candidates, ai.options) :
       ai' = [ai EXCEPT !.decided = TRUE, !.decision = d]
  /\ lastOp' = [NoOp EXCEPT !.op = "fallbackDecision"]
  /\ UNCHANGED <<layer, state, game, players, actions, votes>>

FallbackNext == FallbackDecide

FallbackSpec == FallbackInit /\ [][FallbackNext]_vars

(***************************************************************************)
(* The orchestrator of one phase while the game moves on                   *)
(***************************************************************************)
\* the role and difficulty of the AI player in the first seat
StaleSeatOffers ==
  {[role |-> "werewolf", aiDifficulty |-> "hard"],
   [role |-> "villager", aiDifficulty |-> "easy"]}

\* a game whose advancePhase mutation has just scheduled onPhaseAdvance for
\* the night, the day or the vote of round AiRound, everybody alive
StaleInit ==
  /\ layer = "backend"
  /\ state = NewGameState(0)
  /\ \E phase \in {"night", "day", "voting"}, apiKey \in BOOLEAN, offer \in StaleSeatOffers :
       /\ game = [NewGameDoc EXCEPT !.phase = phase, !.round = AiRound]
       /\ ai = [apiKey |-> apiKey, tasks |-> <<>>,
                runs |-> [r \in RunIds |-> IdleRun],
                orch |-> [pc |-> "scheduled", phase |-> phase, seats |-> <<>>,
                          taskId |-> 0, targetId |-> NULL]]
       /\ players =
            [id \in IdSet |->
               CASE id = Ids[1] -> AiPlayerDoc(offer.role, TRUE, TRUE, offer.aiDifficulty)
                 [] id = Ids[2] -> AiPlayerDoc("werewolf", TRUE, FALSE, NULL)
                 [] OTHER -> AiPlayerDoc("villager", TRUE, FALSE, NULL)]
  /\ lastOp = NoOp
  /\ actions = <<>>
  /\ votes = <<>>

\* the orchestrator and its tasks run while clients advance the phase; the
\* onPhaseAdvance invocations that the later advances schedule are separate
\* invocations and are not followed
StaleNext == AiNext \/ BackendAdvancePhase

StaleSpec == StaleInit /\ [][StaleNext]_vars

(***************************************************************************)
(* One phase of the backend in which resolution and tally are called any   *)
(* number of times: the phase never changes, so at night no vote is ever   *)
(* accepted and every death is the work of resolveNightActions, and in     *)
(* voting no night action is accepted and every death is the work of       *)
(* tallyVotes.                                                             *)
(***************************************************************************)
RepeatInit ==
  /\ layer = "backend"
  /\ state = NewGameState(0)
  /\ lastOp = NoOp
  /\ ai = NoAI
  /\ \E phase \in {"night", "voting"} :
       game = [NewGameDoc EXCEPT !.phase = phase, !.round = TallyRound]
  /\ players = [id \in IdSet |-> NewPlayerDoc(RoleOffer[id])]
  /\ actions = <<>>
  /\ votes = <<>>

RepeatNext ==
  \/ BackendSubmitNightAction
  \/ BackendResolveNightActions
  \/ BackendCastVote
  \/ BackendTallyVotes

RepeatSpec == RepeatInit /\ [][RepeatNext]_vars

(***************************************************************************)
(* Views shared by the properties of both layers                           *)
(***************************************************************************)
PhaseOf == IF layer = "engine" THEN state.phase ELSE game.phase

RoundOf == IF layer = "engine" THEN state.round ELSE game.round

WinnerOf == IF layer = "engine" THEN state.winner ELSE game.winner

\* the roster as a sequence of player records, in join order
RosterOf ==
  IF layer = "engine" THEN state.players
  ELSE [i \in 1..Len(Ids) |->
          [id |-> Ids[i], role |-> players[Ids[i]].role, isAlive |-> players[Ids[i]].isAlive,
           hasActedThisRound |-> players[Ids[i]].hasActedThisRound,
           hasVotedThisRound |-> players[Ids[i]].hasVotedThisRound]]

ActionsOf == IF layer = "engine" THEN state.nightActions ELSE actions

VotesOf == IF layer = "engine" THEN state.votes ELSE votes

AliveOf(id) == FindPlayer(RosterOf, id).isAlive

Winners == {"villagers", "werewolves"}

AdvanceOps == {"advance", "advancePhase"}

\* the successor of each phase in the cycle of the specification
CycleSuccessor ==
  [ph \in Phases \ {"ended"} |->
     CASE ph = "setup"      -> "night"
       [] ph = "night"      -> "day"
       [] ph = "day"        -> "voting"
       [] ph = "voting"     -> "resolution"
       [] ph = "resolution" -> "night"]

\* the data of the game, without the record of the last operation
data == <<state, game, players, actions, votes>>

(***************************************************************************)
(* Properties                                                              *)
(***************************************************************************)
\* C1: once the phase is `ended` no operation changes it any more, and an
\* advance from `ended` returns normally and leaves the game unchanged.
C1_EndedIsAbsorbing ==
  [][/\ PhaseOf = "ended" => PhaseOf' = "ended"
     /\ (PhaseOf = "ended" /\ lastOp'.op \in AdvanceOps)
          => (~lastOp'.error /\ UNCHANGED data)]_vars

\* C2: in every reachable state the game has a winner (villagers or
\* werewolves) exactly when its phase is `ended`.
C2_WinnerIffEnded == (WinnerOf \in Winners) <=> (PhaseOf = "ended")

\* C3: every accepted advance that does not end the game with a winner moves
\* the phase to its successor in the cycle setup, night, day, voting,
\* resolution, night; so resolution without a winner is followed by night.
C3_FixedSuccessor ==
  [][(/\ lastOp'.op \in AdvanceOps
      /\ lastOp'.ok
      /\ PhaseOf # "ended"
      /\ ~(PhaseOf' = "ended" /\ WinnerOf' \in Winners))
       => PhaseOf' = CycleSuccessor[PhaseOf]]_vars

\* the acted and voted flags of the roster, seat by seat
FlagsOf ==
  [i \in 1..Len(RosterOf) |->
     <<RosterOf[i].hasActedThisRound, RosterOf[i].hasVotedThisRound>>]

\* C4: on every accepted advance from a non-ended phase, when the roster left
\* by the phase's resolved work has a winner, the phase becomes `ended` with
\* that winner recorded, the round is not incremented and no flag is reset.
C4_WinEndsGame ==
  [][(/\ lastOp'.op \in AdvanceOps
      /\ lastOp'.ok
      /\ PhaseOf # "ended"
      /\ checkWinCondition(RosterOf') # "none")
       => /\ PhaseOf' = "ended"
          /\ WinnerOf' = checkWinCondition(RosterOf')
          /\ RoundOf' = RoundOf
          /\ FlagsOf' = FlagsOf]_vars

\* the player the pending night actions of the round kill, or NULL
PendingNightVictim ==
  IF layer = "engine" THEN resolveNightActions(state).killedTonight
  ELSE backendNightVictim(RoundRecords(actions, game.round))

\* the player the pending votes of the round eliminate, or NULL
PendingVoteVictim ==
  IF layer = "engine" THEN resolveVoting(state, NULL).eliminatedToday
  ELSE backendTally(RoundRecords(votes, game.round)).eliminatedPlayerId

\* C5: an accepted advance out of `night` applies the round's night actions
\* and an accepted advance out of `voting` applies the round's votes, so the
\* resolution of a round never comes after the reset of its flags.
C5_ResolveBeforeAdvance ==
  [][(lastOp'.op \in AdvanceOps /\ lastOp'.ok)
       => /\ (PhaseOf = "night" /\ PendingNightVictim # NULL)
               => ~FindPlayer(RosterOf', PendingNightVictim).isAlive
          /\ (PhaseOf = "voting" /\ PendingVoteVictim # NULL)
               => ~FindPlayer(RosterOf', PendingVoteVictim).isAlive]_vars

\* C6: the round counter never decreases; it changes only on the transition
\* from `resolution` to `night`, there by exactly 1, and on that transition
\* every player's acted and voted flags become false.
C6_RoundCounter ==
  [][/\ RoundOf' >= RoundOf
     /\ RoundOf' # RoundOf
          => (RoundOf' = RoundOf + 1 /\ PhaseOf = "resolution" /\ PhaseOf' = "night")
     /\ (PhaseOf = "resolution" /\ PhaseOf' = "night")
          => /\ RoundOf' = RoundOf + 1
             /\ \A i \in 1..Len(RosterOf') :
                  ~RosterOf'[i].hasActedThisRound /\ ~RosterOf'[i].hasVotedThisRound]_vars

\* C7: an advance from `setup` leaves the game unchanged while a player has no
\* role or the roster has fewer than 4 players; once 4 or more players all
\* have roles the advance leads to `night` and the round is 1.
C7_SetupGate ==
  [][(lastOp'.op = "advance" /\ PhaseOf = "setup")
       => IF \/ \E i \in 1..Len(RosterOf) : RosterOf[i].role = NULL
             \/ Len(RosterOf) < 4
          THEN UNCHANGED data
          ELSE PhaseOf' = "night" /\ RoundOf' = 1]_vars

\* C8: an advance from `night` is refused and leaves the game unchanged while
\* an alive werewolf, seer or doctor has not acted this round.
C8_NightGate ==
  [][(/\ lastOp'.op \in AdvanceOps
      /\ PhaseOf = "night"
      /\ \E i \in 1..Len(RosterOf) :
           /\ RosterOf[i].isAlive
           /\ RosterOf[i].role \in {"werewolf", "seer", "doctor"}
           /\ ~RosterOf[i].hasActedThisRound)
       => UNCHANGED data]_vars

\* C9: an advance from `voting` is refused and leaves the game unchanged while
\* an alive player has not voted this round.
C9_VotingGate ==
  [][(/\ lastOp'.op \in AdvanceOps
      /\ PhaseOf = "voting"
      /\ \E i \in 1..Len(RosterOf) :
           RosterOf[i].isAlive /\ ~RosterOf[i].hasVotedThisRound)
       => UNCHANGED data]_vars

\* the owners of the records that a step added to a table or changed in it
Touched(old, new, owner(_)) ==
  {owner(new[i]) : i \in {j \in 1..Len(new) : j > Len(old) \/ new[j] # old[j]}}

\* C10: no step records or overwrites a night action or a vote of a player
\* who is dead when it is submitted.
C10_DeadNeverActs ==
  [][/\ \A id \in Touched(ActionsOf, ActionsOf', LAMBDA a : a.playerId) : AliveOf(id)
     /\ \A id \in Touched(VotesOf, VotesOf', LAMBDA v : v.voterId) : AliveOf(id)]_vars

\* the records of a table that belong to one owner and one round
RecordsOf(table, owner(_), id, round) ==
  {i \in 1..Len(table) : owner(table[i]) = id /\ table[i].round = round}

\* the number of votes the tally of the current round counts: both tallies
\* read every vote record of the round, abstentions included
VotesCounted == Len(SelectSeq(VotesOf, LAMBDA v : v.round = RoundOf))

\* the voters who have a vote record in the current round
VotersOfRound == {VotesOf[i].voterId : i \in {j \in 1..Len(VotesOf) : VotesOf[j].round = RoundOf}}

\* C11: in every reachable state each voter has at most one vote record per
\* round (a second submission replaces the first instead of adding a record),
\* so the tally of the round counts each voter at most once.
C11_OneVotePerVoter ==
  /\ \A i \in 1..Len(VotesOf) :
       Cardinality(RecordsOf(VotesOf, LAMBDA v : v.voterId,
                             VotesOf[i].voterId, VotesOf[i].round)) <= 1
  /\ VotesCounted <= Cardinality(VotersOfRound)

\* C12: in every reachable state each actor has at most one night action
\* record per round: a second submission for the same actor and round
\* overwrites the first instead of appending to it.
C12_OneActionPerActor ==
  \A i \in 1..Len(ActionsOf) :
     Cardinality(RecordsOf(ActionsOf, LAMBDA a : a.playerId,
                           ActionsOf[i].playerId, ActionsOf[i].round)) <= 1

\* the positions of the records that a step added to a table or changed in it
TouchedAt(old, new) == {j \in 1..Len(new) : j > Len(old) \/ new[j] # old[j]}

\* C13: a step records or overwrites a night action only if, when it is
\* submitted, the actor is alive, the target is alive, the phase is `night`,
\* the actor has not acted this round, the actor's role has a night action
\* and the recorded kind is the kind of that role, and a werewolf does not
\* target a werewolf; so no recorded kill of a werewolf targets a werewolf.
C13_NightSubmissionChecked ==
  [][\A i \in TouchedAt(ActionsOf, ActionsOf') :
       LET a == ActionsOf'[i]
           actor == FindPlayer(RosterOf, a.playerId)
           target == FindPlayer(RosterOf, a.targetId)
       IN  /\ actor.isAlive
           /\ target.isAlive
           /\ PhaseOf = "night"
           /\ ~actor.hasActedThisRound
           /\ getNightActionType(actor.role) # "none"
           /\ a.actionType = getNightActionType(actor.role)
           /\ ~(actor.role = "werewolf" /\ target.role = "werewolf")]_vars

\* C14: a step records or overwrites a vote only if, when it is submitted,
\* the voter is alive, the phase is `day` or `voting`, the voter has not voted
\* this round, and the target is null (abstain) or an alive player.
C14_VoteSubmissionChecked ==
  [][\A i \in TouchedAt(VotesOf, VotesOf') :
       LET v == VotesOf'[i]
           voter == FindPlayer(RosterOf, v.voterId)
           target == FindPlayer(RosterOf, v.targetId)
       IN  /\ voter.isAlive
           /\ PhaseOf \in {"day", "voting"}
           /\ ~voter.hasVotedThisRound
           /\ (v.targetId = NULL \/ target.isAlive)]_vars

\* C15: a night-action or vote submission that the backend rejects (wrong
\* phase, dead actor, actor not in the game) changes nothing: the game
\* document, the players' flags and the recorded actions and votes are the
\* same after it as before.
C15_RejectedChangesNothing ==
  [][(lastOp'.op \in {"submitNightAction", "castVote"} /\ lastOp'.error)
       => UNCHANGED data]_vars

\* C15 witness: the submission of an eliminated player was rejected during
\* the night of a round that already has a recorded action
C15_Witness ==
  /\ layer = "backend"
  /\ lastOp.op = "submitNightAction"
  /\ lastOp.error
  /\ game.phase = "night"
  /\ lastOp.actor \in DOMAIN players
  /\ ~players[lastOp.actor].isAlive
  /\ RoundRecords(actions, game.round) # <<>>

\* the kill and protect actions of the current round that name a target
KillsOfRound ==
  SelectSeq(ActionsOf, LAMBDA a : a.round = RoundOf /\ a.actionType = "kill" /\ a.targetId # NULL)

ProtectsOfRound ==
  SelectSeq(ActionsOf, LAMBDA a : a.round = RoundOf /\ a.actionType = "protect" /\ a.targetId # NULL)

TargetsOf(as) == {as[i].targetId : i \in 1..Len(as)}

FirstAt(as, t) == CHOOSE i \in 1..Len(as) : as[i].targetId = t /\ \A j \in 1..(i - 1) : as[j].targetId # t

\* the kill target of the round: the target named by the most kill actions,
\* the one named first among those with the most; NULL without kill actions
KillTarget ==
  IF KillsOfRound = <<>> THEN NULL
  ELSE CHOOSE t \in TargetsOf(KillsOfRound) :
         \A u \in TargetsOf(KillsOfRound) \ {t} :
            \/ CountFor(KillsOfRound, t) > CountFor(KillsOfRound, u)
            \/ /\ CountFor(KillsOfRound, t) = CountFor(KillsOfRound, u)
               /\ FirstAt(KillsOfRound, t) < FirstAt(KillsOfRound, u)

\* the kill target is the protected target: every protect action of the round names it
KillTargetProtected == ProtectsOfRound # <<>> /\ TargetsOf(ProtectsOfRound) = {KillTarget}

\* the kill target is not protected: no protect action of the round names it
KillTargetUnprotected == KillTarget \notin TargetsOf(ProtectsOfRound)

\* the isAlive column of a roster
AliveColumn(ps) == [i \in 1..Len(ps) |-> ps[i].isAlive]

\* the isAlive column of the roster after one player died
AliveColumnWithout(ps, id) == [i \in 1..Len(ps) |-> ps[i].isAlive /\ ps[i].id # id]

BallotsOfRound == SelectSeq(VotesOf, LAMBDA v : v.round = RoundOf /\ v.targetId # NULL)

VoteCount(t) == CountFor(BallotsOfRound, t)

\* the targets with the greatest number of votes in the current round
TopTargets ==
  {t \in TargetsOf(BallotsOfRound) :
     \A u \in TargetsOf(BallotsOfRound) : VoteCount(t) >= VoteCount(u)}

TallyOps == {"resolveVoting", "tallyVotes"}

\* the step resolved the votes of the round: by a direct call, or by an
\* accepted advance of the engine out of `voting`
VotesResolved ==
  \/ lastOp'.op \in TallyOps
  \/ lastOp'.op = "advance" /\ lastOp'.from = "voting" /\ lastOp'.ok

\* C17: the tally of the current round counts, per target, the votes of that
\* round that name the target; a target with strictly more votes than every
\* other is the leader; a tie is reported exactly when two or more targets
\* share the greatest count; and resolving a tied round eliminates nobody.
C17_Tally ==
  /\ [](layer = "engine" =>
          LET t == tallyVotes(state)
          IN  /\ t.results = [k \in TargetsOf(BallotsOfRound) |-> VoteCount(k)]
              /\ Cardinality(TopTargets) = 1 => t.leader \in TopTargets
              /\ t.isTie <=> Cardinality(TopTargets) >= 2)
  /\ [](layer = "backend" =>
          LET b == backendTally(RoundRecords(votes, game.round))
          IN  /\ Cardinality(TopTargets) = 1 => b.eliminatedPlayerId \in TopTargets
              /\ b.tie <=> Cardinality(TopTargets) >= 2)
  /\ [][(VotesResolved /\ Cardinality(TopTargets) >= 2) =>
          /\ AliveColumn(RosterOf') = AliveColumn(RosterOf)
          /\ layer = "engine" => state'.eliminatedToday = NULL
          /\ layer = "backend" => lastOp'.target = NULL]_vars

\* C17 witness: a round in which two alive players share the greatest number
\* of votes has been resolved
C17_Witness ==
  /\ lastOp.op \in TallyOps
  /\ Cardinality(TopTargets) >= 2
  /\ \A t \in TopTargets : AliveOf(t)
  /\ \E t \in TopTargets : VoteCount(t) >= 2

RosterIds == {RosterOf[i].id : i \in 1..Len(RosterOf)}

\* the one target with strictly more votes than every other target of the
\* round; NULL when there is none
ClearLeader == IF Cardinality(TopTargets) = 1 THEN CHOOSE t \in TopTargets : TRUE ELSE NULL

\* C18: when one player of the roster has strictly more votes than every
\* other target of the round, vote resolution leaves that player dead and
\* reports that player as eliminated (eliminatedToday in the engine, the
\* returned eliminatedPlayerId in the backend), and changes the isAlive of no
\* other player, except for the revenge target of an eliminated Hunter.
C18_ClearLeaderEliminated ==
  [][(VotesResolved /\ ClearLeader \in RosterIds) =>
       /\ ~FindPlayer(RosterOf', ClearLeader).isAlive
       /\ lastOp'.op = "resolveVoting" => state'.eliminatedToday = ClearLeader
       /\ layer = "backend" => lastOp'.target = ClearLeader
       /\ \A i \in 1..Len(RosterOf) :
            \/ RosterOf[i].id = ClearLeader
            \/ RosterOf'[i].isAlive = RosterOf[i].isAlive
            \/ /\ layer = "engine"
               /\ FindPlayer(RosterOf, ClearLeader).role = "hunter"
               /\ RosterOf[i].id = lastOp'.target]_vars

\* C18 witness: two votes for one alive player and one vote for another have
\* been resolved: the first is eliminated, the second is alive
C18_Witness ==
  /\ lastOp.op \in TallyOps
  /\ ClearLeader \in RosterIds
  /\ VoteCount(ClearLeader) = 2
  /\ ~AliveOf(ClearLeader)
  /\ layer = "engine" => state.eliminatedToday = ClearLeader
  /\ \E t \in RosterIds \ {ClearLeader} : VoteCount(t) = 1 /\ AliveOf(t)

\* the players a step killed
KilledByStep ==
  {RosterOf[i].id : i \in {j \in 1..Len(RosterOf) : RosterOf[j].isAlive /\ ~RosterOf'[j].isAlive}}

\* the revenge applies: the vote eliminates the Hunter and the revenge target
\* h is supplied, is another player, and is alive
RevengeApplies(h) ==
  /\ ClearLeader \in RosterIds
  /\ FindPlayer(RosterOf, ClearLeader).role = "hunter"
  /\ h # NULL
  /\ h # ClearLeader
  /\ AliveOf(h)

\* C19: when the vote eliminates the Hunter and a revenge target is supplied
\* that is another player and alive, that player is dead after vote
\* resolution too; in every other case vote resolution kills at most one
\* player.  The backend tallyVotes takes no revenge target.
C19_HunterRevenge ==
  [][VotesResolved =>
       IF layer = "engine" /\ RevengeApplies(lastOp'.target)
       THEN /\ ~FindPlayer(RosterOf', lastOp'.target).isAlive
            /\ ~FindPlayer(RosterOf', ClearLeader).isAlive
       ELSE Cardinality(KilledByStep) <= 1]_vars

\* C19 witness: the Hunter was voted out and took along the fourth seat, a
\* player whom no vote names and who was alive before the resolution
C19_Witness ==
  /\ layer = "engine"
  /\ lastOp.op \in {"resolveVoting", "advance"}
  /\ lastOp.from = "voting"
  /\ ClearLeader \in RosterIds
  /\ FindPlayer(RosterOf, ClearLeader).role = "hunter"
  /\ ~AliveOf(ClearLeader)
  /\ lastOp.target = Ids[4]
  /\ ~AliveOf(Ids[4])

\* the round has no elimination to make: no vote names a target (no votes,
\* or abstentions only), two or more targets share the greatest count, or the
\* target with the most votes is not a player of the roster
NothingToEliminate ==
  \/ BallotsOfRound = <<>>
  \/ Cardinality(TopTargets) >= 2
  \/ ClearLeader \notin RosterIds

\* C20: resolving the votes of a round that has no votes, only abstentions,
\* a tie for the greatest count, or a leader outside the roster raises no
\* error, changes no player's isAlive and leaves eliminatedToday null.
C20_NoElimination ==
  [][(VotesResolved /\ NothingToEliminate) =>
       /\ ~lastOp'.error
       /\ AliveColumn(RosterOf') = AliveColumn(RosterOf)
       /\ layer = "engine" => state'.eliminatedToday = NULL]_vars

(***************************************************************************)
(* Win condition (C21)                                                     *)
(***************************************************************************)
\* the alive seats of the engine's roster that are (are not) werewolves
AliveWerewolfSeats ==
  {i \in 1..Len(state.players) : state.players[i].isAlive /\ state.players[i].role = "werewolf"}

AliveOtherSeats ==
  {i \in 1..Len(state.players) : state.players[i].isAlive /\ state.players[i].role # "werewolf"}

\* C21: for every roster, checkWinCondition returns `werewolves` iff the alive
\* werewolves are at least as many as the alive non-werewolves, otherwise
\* `villagers` iff no werewolf is alive, otherwise `none`; in particular 2
\* alive werewolves with 3 alive others give `none`, and 2 with 2 give
\* `werewolves`.
C21_WinCondition ==
  [][lastOp'.op = "checkWinCondition" =>
       LET w == Cardinality(AliveWerewolfSeats)
           v == Cardinality(AliveOtherSeats)
       IN  /\ (state'.winner = "werewolves") <=> (w >= v)
           /\ (state'.winner = "villagers") <=> (w < v /\ w = 0)
           /\ (state'.winner = "none") <=> (w < v /\ w > 0)
           /\ (w = 2 /\ v = 3) => state'.winner = "none"
           /\ (w = 2 /\ v = 2) => state'.winner = "werewolves"]_vars

\* two alive werewolves against two alive others were judged a werewolf win
C21_Witness ==
  /\ lastOp.op = "checkWinCondition"
  /\ Cardinality(AliveWerewolfSeats) = 2
  /\ Cardinality(AliveOtherSeats) = 2
  /\ state.winner = "werewolves"

(***************************************************************************)
(* Role configuration (C22, C23)                                           *)
(***************************************************************************)
\* how many seats of the engine's roster hold the role r
SeatsWithRole(ps, r) == Cardinality({i \in 1..Len(ps) : ps[i].role = r})

\* the requested special roles, in the order of the request
RequestedSpecials(settings) ==
  SelectSeq(settings.includeRoles, LAMBDA r : r \notin {"werewolf", "villager"})

\* how many of the requested special roles find a slot after the werewolves
SpecialSlots(settings) ==
  LET free == settings.playerCount - settings.werewolfCount
      asked == Len(RequestedSpecials(settings))
  IN  IF asked <= free THEN asked ELSE IF free < 0 THEN 0 ELSE free

\* the settings of the game pass validateRoleConfiguration
SettingsAccepted == validateRoleConfiguration(state.settings) = <<>>

C23_ValidationExact ==
  [][lastOp'.op = "validateRoleConfiguration" =>
       LET settings == state.settings
       IN  /\ ~lastOp'.error
           /\ state'.validation.valid <=>
                /\ settings.playerCount >= 4
                /\ settings.werewolfCount >= 1
                /\ 2 * settings.werewolfCount < settings.playerCount
                /\ Len(settings.includeRoles) <= settings.playerCount
           /\ state'.validation.valid <=> (state'.validation.errors = <<>>)]_vars

(***************************************************************************)
(* AI tasks (C24..C30)                                                     *)
(***************************************************************************)
TerminalStatuses == {"completed", "failed"}

\* the steps a task's status may take
StatusSteps ==
  {<<"queued", "running">>, <<"running", "completed">>, <<"running", "failed">>}

\* C24: a task's status changes only along queued -> running -> completed or
\* queued -> running -> failed, and a completed or failed task changes
\* neither status nor result again, also when its processing is requested or
\* run more than once.
C24_TaskLifecycle ==
  [][\A t \in 1..Len(ai.tasks) :
       /\ ai'.tasks[t].status # ai.tasks[t].status
            => <<ai.tasks[t].status, ai'.tasks[t].status>> \in StatusSteps
       /\ ai.tasks[t].status \in TerminalStatuses
            => /\ ai'.tasks[t].status = ai.tasks[t].status
               /\ ai'.tasks[t].result = ai.tasks[t].result]_vars

\* the invocation r ends in this step, and t is its task
RunEnds(r) == ai.runs[r].pc \in {"complete", "fail"} /\ ai'.runs[r].pc = "done"

\* C25: a task becomes `failed` only through an invocation whose fallback
\* threw; an invocation that caught an error of the provider (or of its first
\* attempt) and whose fallback then returned ends with the task `completed`,
\* the result being the fallback's with the caught message as fallbackReason;
\* so does an invocation whose fallback replaced an unusable answer.
C25_FailedOnlyIfFallbackThrew ==
  [][\A r \in RunIds :
       RunEnds(r) =>
         LET t == ai.runs[r].taskId
         IN  /\ ai'.tasks[t].status = "failed" => ai.runs[r].fallback = "threw"
             /\ (ai.runs[r].message # NULL /\ ai.runs[r].fallback = "returned")
                  => /\ ai'.tasks[t].status = "completed"
                     /\ ai'.tasks[t].result = ai.runs[r].result
                     /\ ai'.tasks[t].result.source = "fallback"
                     /\ ai'.tasks[t].result.fallbackReason = ai.runs[r].message
             /\ (ai.runs[r].byFallback /\ ai.runs[r].fallback # "threw")
                  => ai'.tasks[t].status = "completed"]_vars

\* the provider failed, the fallback returned, and the decision task was
\* completed with the fallback's result
C25_Witness ==
  /\ ai.apiKey
  /\ \E t \in 1..Len(ai.tasks) :
       /\ ai.tasks[t].taskType = "player_decision"
       /\ ai.tasks[t].status = "completed"
       /\ ai.tasks[t].result.source = "fallback"
       /\ ai.tasks[t].result.fallbackReason = "provider error"
       /\ ai.tasks[t].result.targetId # NULL

\* the numbers a game's tasks can have: the narration and one decision for
\* every seat
TaskSlots == 1..(Len(Ids) + 1)

TaskIs(t, statuses) == t <= Len(ai.tasks) /\ ai.tasks[t].status \in statuses

\* the AI seats that must act in the phase have all submitted: their action
\* at night, their vote otherwise
AISeatsHaveActed ==
  \A id \in Range(getAIPlayersForPhase(game.phase)) :
    IF game.phase = "night"
    THEN players[id].hasActedThisRound
    ELSE players[id].hasVotedThisRound

\* C26: every task that started processing eventually is completed or
\* failed, and eventually every alive AI seat that must act in the phase has
\* its action or vote submitted (games in which a task failed because the
\* fallback threw are left aside).
C26_NeverBlockedOnAI ==
  /\ \A t \in TaskSlots : TaskIs(t, {"running"}) ~> TaskIs(t, TerminalStatuses)
  /\ <>(AISeatsHaveActed \/ \E t \in TaskSlots : TaskIs(t, {"failed"}))

\* the invocation r writes the result of a player_decision task in this step
DecisionCompleted(r) ==
  /\ ai.runs[r].pc = "complete"
  /\ ai'.runs[r].pc = "done"
  /\ ai.tasks[ai.runs[r].taskId].taskType = "player_decision"

\* the players the actor may target now: alive, not the actor and, for a
\* werewolf, not a werewolf
LegalTargets(actor) ==
  {id \in DOMAIN players :
     /\ players[id].isAlive
     /\ id # actor
     /\ players[actor].role = "werewolf" => players[id].role # "werewolf"}

\* C27: the targetId of a completed player_decision result is null or a
\* target that is legal now; a parsed id outside the legal targets is not
\* passed through.
C27_TargetLegal ==
  [][\A r \in RunIds :
       DecisionCompleted(r) =>
         LET t == ai.runs[r].taskId
         IN  ai'.tasks[t].result.targetId \in
               {NULL} \cup LegalTargets(ai.tasks[t].playerId)]_vars

\* C29: without a provider key, the decision task of a hard-difficulty
\* werewolf is completed with a target that is alive, not a werewolf and not
\* the werewolf itself.
C29_HardWerewolfFallback ==
  [][\A r \in RunIds :
       LET t == ai.runs[r].taskId
           actor == ai.tasks[t].playerId
       IN  (/\ DecisionCompleted(r)
            /\ ~ai.apiKey
            /\ players[actor].role = "werewolf"
            /\ players[actor].aiDifficulty = "hard")
           => ai'.tasks[t].result.targetId \in
                {id \in DOMAIN players :
                   players[id].isAlive /\ players[id].role # "werewolf" /\ id # actor}]_vars

\* C30: a completed result whose target the fallback policy made has the
\* source `fallback`; the source is the provider's only when the decision
\* parsed from the provider's answer was used.
C30_ProvenanceOfFallback ==
  [][\A r \in RunIds :
       DecisionCompleted(r) =>
         LET result == ai'.tasks[ai.runs[r].taskId].result
         IN  /\ ai.runs[r].byFallback => result.source = "fallback"
             /\ result.source = "openrouter" => ~ai.runs[r].byFallback]_vars

\* the candidates makeFallback hands to the fallback policy for the actor
FallbackCandidates(actor) ==
  {id \in DOMAIN players : players[id].isAlive /\ id # actor}

\* C28: a decision made by the fallback policy targets one of the candidates
\* it was given, and has a null target only when there is no candidate.
C28_FallbackClosed ==
  [][\A r \in RunIds :
       (DecisionCompleted(r) /\ ai.runs[r].byFallback) =>
         LET t == ai.runs[r].taskId
             candidates == FallbackCandidates(ai.tasks[t].playerId)
             target == ai'.tasks[t].result.targetId
         IN  IF candidates = {} THEN target = NULL ELSE target \in candidates]_vars

\* the orchestrator submits the decision of its seat in this step
OrchSubmits == ai.orch.pc = "submit" /\ ai'.orch.pc = "loop"

\* the game has left the phase the orchestrator was scheduled for
PhaseLeft == game.phase # ai.orch.phase \/ game.round # AiRound

\* C31: a decision computed for a phase the game has left is not applied:
\* its submission records no action and no vote and changes no player.
C31_StaleDiscarded ==
  [][(OrchSubmits /\ PhaseLeft) => UNCHANGED <<actions, votes, players, game>>]_vars

\* the invocation r has called the provider for its task: it holds the
\* provider's error or a result made from the provider's answer
ProviderCalled(r) ==
  /\ ai.apiKey
  /\ ai.runs[r].taskId # 0
  /\ \/ ai.runs[r].message = "provider error"
     \/ ai.runs[r].result.source = "openrouter"

\* C32: the provider is called at most once for a task, also when the
\* processing of the task is scheduled more than once.
C32_OneProviderCall ==
  \A r1, r2 \in RunIds :
    (ProviderCalled(r1) /\ ProviderCalled(r2) /\ ai.runs[r1].taskId = ai.runs[r2].taskId)
      => r1 = r2

\* C33: night resolution picks the target named by the most kill actions of
\* the current round, the one named first among several with the most;
\* actions of other rounds and other kinds do not count, and without a kill
\* action nobody is killed.  The engine reports the chosen target as killed
\* or saved; the backend returns it unless a protect action names it.
C33_KillTargetSelection ==
  /\ [][lastOp'.op = "resolveNight" =>
          IF KillTarget = NULL
          THEN /\ state'.killedTonight = NULL
               /\ state'.savedTonight = NULL
               /\ AliveColumn(state'.players) = AliveColumn(state.players)
          ELSE {state'.killedTonight, state'.savedTonight} = {KillTarget, NULL}]_vars
  /\ [][lastOp'.op = "resolveNightActions" =>
          /\ lastOp'.target = IF KillTarget \in TargetsOf(ProtectsOfRound)
                              THEN NULL ELSE KillTarget
          /\ KillTarget = NULL => AliveColumn(RosterOf') = AliveColumn(RosterOf)]_vars

\* C33 witness: the engine resolved a night in which two targets had the most
\* kill actions and a kill action of an earlier round was on record; the
\* target named first was killed
C33_Witness ==
  /\ layer = "engine"
  /\ lastOp.op = "resolveNight"
  /\ state.killedTonight # NULL
  /\ state.killedTonight = KillTarget
  /\ \E u \in TargetsOf(KillsOfRound) \ {KillTarget} :
       /\ CountFor(KillsOfRound, u) = CountFor(KillsOfRound, KillTarget)
       /\ FirstAt(KillsOfRound, KillTarget) < FirstAt(KillsOfRound, u)
  /\ \E i \in 1..Len(state.nightActions) :
       state.nightActions[i].round # state.round /\ state.nightActions[i].actionType = "kill"

\* the confirmed werewolves of the investigation results that are candidates
ConfirmedInPool ==
  {ai.options.investigationResults[i].playerId :
     i \in {j \in 1..Len(ai.options.investigationResults) :
              ai.options.investigationResults[j].isWerewolf}}
    \cap Range(ai.candidates)

\* C34: in voting or day, when the investigation results hold a confirmed
\* werewolf who is a candidate, the fallback policy returns a confirmed
\* werewolf among the candidates.
C34_ConfirmedWerewolfTargeted ==
  (ai.decided /\ ai.phase \in {"voting", "day"} /\ ConfirmedInPool # {})
    => ai.decision.targetId \in ConfirmedInPool

\* C35: in every state of the engine whose phase is night, day, voting or
\* resolution, a werewolf is alive and the alive werewolves are fewer than
\* the alive players who are not werewolves.
C35_NoWinnerWhilePlaying ==
  (layer = "engine" /\ state.phase \in {"night", "day", "voting", "resolution"})
    => /\ AliveWerewolfSeats # {}
       /\ Cardinality(AliveWerewolfSeats) < Cardinality(AliveOtherSeats)

\* C35 witness: an advance has resolved a death and the game goes on
C35_Witness ==
  /\ layer = "engine"
  /\ lastOp.op = "advance" /\ lastOp.ok /\ lastOp.from \in {"night", "voting"}
  /\ state.phase \in {"day", "resolution"}
  /\ \E i \in 1..Len(state.players) : ~state.players[i].isAlive
  /\ AliveWerewolfSeats # {}

\* the players of the engine's roster that die in this step
DiedInStep ==
  {state.players[i].id : i \in {j \in 1..Len(state.players) :
      state.players[j].isAlive /\ ~state'.players[j].isAlive}}

\* C36: the state returned by an advance out of night names the player the
\* night killed in killedTonight, and the state returned by an advance out
\* of voting names a player the vote eliminated in eliminatedToday.
C36_OutcomeReported ==
  [][(layer = "engine" /\ lastOp'.op = "advance" /\ lastOp'.ok /\ DiedInStep # {}) =>
       /\ state.phase = "night" => state'.killedTonight \in DiedInStep
       /\ state.phase = "voting" => state'.eliminatedToday \in DiedInStep]_vars

\* C37: a player who is dead stays dead: no step of either layer makes the
\* isAlive of a dead player true.
C37_DeathIsPermanent ==
  [][\A i \in 1..Len(RosterOf) :
       ~RosterOf[i].isAlive => (i <= Len(RosterOf') /\ ~RosterOf'[i].isAlive)]_vars

\* C37 witness: the engine has begun a new round with a dead player on the
\* roster
C37_Witness ==
  /\ layer = "engine"
  /\ lastOp.op = "advance" /\ lastOp.ok /\ lastOp.from = "resolution"
  /\ state.phase = "night"
  /\ \E i \in 1..Len(state.players) : ~state.players[i].isAlive

\* the players of the backend that are dead
DeadPlayers == {id \in DOMAIN players : ~players[id].isAlive}

\* C38: in one round night resolution kills at most one player and the vote
\* eliminates at most one, or two with the Hunter's revenge, however often
\* resolveNightActions and tallyVotes are called.
C38_OneDeathPerResolution ==
  /\ game.phase = "night" => Cardinality(DeadPlayers) <= 1
  /\ game.phase = "voting" => Cardinality(DeadPlayers) <= 2

\* the seats the night guard of canTransitionPhase waits for
NightPending ==
  {i \in 1..Len(state.players) :
     /\ state.players[i].isAlive
     /\ HasNightRole(state.players[i])
     /\ ~state.players[i].hasActedThisRound}

\* the seats the voting guard of canTransitionPhase waits for
VotePending ==
  {i \in 1..Len(state.players) :
     state.players[i].isAlive /\ ~state.players[i].hasVotedThisRound}

\* C39: no state of the engine is stuck: at night every seat the guard waits
\* for has a target that canPerformNightAction accepts, in voting every seat
\* the guard waits for may vote for somebody and may abstain, and an advance
\* whose guard is satisfied leaves the phase.
C39_NeverStuck ==
  /\ []((layer = "engine" /\ state.phase = "night") =>
          \A i \in NightPending : \E j \in 1..Len(state.players) :
             canPerformNightAction(state.players[i], state.players[j], state))
  /\ []((layer = "engine" /\ state.phase = "voting") =>
          \A i \in VotePending :
             /\ canVote(state.players[i], NoPlayer, state)
             /\ \E j \in 1..Len(state.players) :
                  canVote(state.players[i], state.players[j], state))
  /\ [][(layer = "engine" /\ lastOp'.op = "advance" /\ canTransitionPhase(state))
          => state'.phase # state.phase]_vars

\* C39 witness: a night after the first, a player has died, and the werewolf
\* has yet to act
C39_Witness ==
  /\ layer = "engine"
  /\ state.phase = "night"
  /\ state.round > InitialRound
  /\ \E i \in 1..Len(state.players) : ~state.players[i].isAlive
  /\ \E i \in NightPending : state.players[i].role = "werewolf"

\* the backend's game as a state of the rules engine: same roster, same
\* round, the actions table as nightActions
EngineTwin ==
  [NewGameState(0) EXCEPT !.phase = game.phase, !.round = game.round,
                          !.players = RosterOf, !.nightActions = actions]

\* C40: the player the backend's resolveNightActions eliminates is the player
\* the engine's resolveNightActions kills on the same roster and the same
\* actions, and both kill nobody together.
C40_NightResolutionsAgree ==
  [][(layer = "backend" /\ lastOp'.op = "resolveNightActions") =>
       /\ lastOp'.target = resolveNightActions(EngineTwin).killedTonight
       /\ AliveColumn(RosterOf') = AliveColumn(resolveNightActions(EngineTwin).players)]_vars

====
